---- MODULE Spec2Model ----
(***************************************************************************)
(* A model of the incremental HTTP/1.x parser (HttpParser), the start-line *)
(* tokenizers, the validators and the header container it delegates to.    *)
(* Bytes and UTF-16 code units are integers; a Uint8Array or a string is a *)
(* sequence of them.  JavaScript's null/undefined is None (the empty       *)
(* sequence), a present value x is Some(x) (the one-element sequence).     *)
(***************************************************************************)
EXTENDS Integers, Sequences, FiniteSets, TLC

None == <<>>
Some(x) == <<x>>

(***************************************************************************)
(* Byte values the code names literally.                                   *)
(***************************************************************************)
CR == 13
LF == 10
SPACE == 32
HTAB == 9
FF == 12
DEL == 127
COLON == 58
SEMICOLON == 59
UNDERSCORE == 95

Min(S) == CHOOSE x \in S : \A y \in S : x <= y
Max(S) == CHOOSE x \in S : \A y \in S : x >= y

(***************************************************************************)
(* JavaScript array and string primitives, 0-based as in the source.       *)
(***************************************************************************)
\* data[i]: -1 stands for undefined (an index outside the array)
At(data, i) == IF i >= 0 /\ i < Len(data) THEN data[i + 1] ELSE -1

\* Uint8Array.prototype.slice / String.prototype.slice(start, end)
Slice(data, start, end) ==
    LET n  == Len(data)
        rs == IF start < 0 THEN start + n ELSE start
        re == IF end < 0 THEN end + n ELSE end
        lo == IF rs < 0 THEN 0 ELSE IF rs > n THEN n ELSE rs
        hi == IF re < 0 THEN 0 ELSE IF re > n THEN n ELSE re
    IN  IF lo >= hi THEN <<>> ELSE SubSeq(data, lo + 1, hi)

\* the first index of a set of indices, -1 when there is none (a scan loop
\* that breaks on its first hit)
FirstIndex(S) == IF S = {} THEN -1 ELSE Min(S)

\* String.prototype.includes
Includes(s, sub) ==
    \E i \in 0..(Len(s) - Len(sub)) : Slice(s, i, i + Len(sub)) = sub

\* String.prototype.indexOf for a one-character needle
IndexOf(s, c) == FirstIndex({i \in 0..(Len(s) - 1) : At(s, i) = c})

\* String.prototype.toLowerCase on the ASCII range
LowerChar(c) == IF c >= 65 /\ c <= 90 THEN c + 32 ELSE c
toLowerCase(s) == [i \in 1..Len(s) |-> LowerChar(s[i])]

\* the characters String.prototype.trim strips (the one-unit WhiteSpace and
\* LineTerminator code points)
WhiteSpace == {9, 10, 11, 12, 13, 32, 160, 5760, 8232, 8233, 8239, 8287, 12288, 65279}
    \cup (8192..8202)

trim(s) ==
    LET keep == {i \in 1..Len(s) : s[i] \notin WhiteSpace}
    IN  IF keep = {} THEN <<>> ELSE SubSeq(s, Min(keep), Max(keep))

trimStart(s) ==
    LET keep == {i \in 1..Len(s) : s[i] \notin WhiteSpace}
    IN  IF keep = {} THEN <<>> ELSE SubSeq(s, Min(keep), Len(s))

\* TextDecoder("utf-8", {fatal: false}).decode: an ASCII byte is its own
\* code unit; a byte that is not ASCII and not part of a well-formed
\* multi-byte sequence decodes to U+FFFD
decodeUtf8(bytes) ==
    [i \in 1..Len(bytes) |-> IF bytes[i] < 128 THEN bytes[i] ELSE 65533]

\* the index of the first CR LF of s, -1 when there is none
IndexOfCRLF(s) ==
    FirstIndex({i \in 0..(Len(s) - 2) : At(s, i) = CR /\ At(s, i + 1) = LF})

\* String.prototype.split("\r\n")
RECURSIVE splitCRLF(_)
splitCRLF(s) ==
    LET i == IndexOfCRLF(s)
    IN  IF i = -1 THEN <<s>>
        ELSE <<Slice(s, 0, i)>> \o splitCRLF(Slice(s, i + 2, Len(s)))

\* Array.prototype.join(", ")
RECURSIVE join(_)
join(values) ==
    IF values = <<>> THEN <<>>
    ELSE IF Len(values) = 1 THEN values[1]
    ELSE values[1] \o <<44, 32>> \o join(Tail(values))

(***************************************************************************)
(* Number parsing: parseInt(s, radix) and Number(s).                       *)
(***************************************************************************)
DigitVal(c) ==
    IF c >= 48 /\ c <= 57 THEN c - 48
    ELSE IF c >= 97 /\ c <= 122 THEN c - 87
    ELSE IF c >= 65 /\ c <= 90 THEN c - 55
    ELSE 99

\* the length of the longest prefix of s made of digits of the radix
DigitPrefix(s, radix) ==
    LET bad == {i \in 1..Len(s) : DigitVal(s[i]) >= radix}
    IN  IF bad = {} THEN Len(s) ELSE Min(bad) - 1

RECURSIVE DigitsValue(_, _)
DigitsValue(s, radix) ==
    IF s = <<>> THEN 0
    ELSE DigitsValue(SubSeq(s, 1, Len(s) - 1), radix) * radix + DigitVal(s[Len(s)])

RECURSIVE Pow10(_)
Pow10(n) == IF n <= 0 THEN 1 ELSE 10 * Pow10(n - 1)

IsSign(c) == c = 43 \/ c = 45
HasHexPrefix(s) == Len(s) >= 2 /\ s[1] = 48 /\ (s[2] = 120 \/ s[2] = 88)

\* parseInt(s, radix): None is NaN.  Leading white space is skipped, one
\* sign is taken, with radix 16 a 0x/0X prefix is skipped, and the longest
\* prefix of digits is the value: what follows the digits is ignored.
parseInt(str, radix) ==
    LET s0  == trimStart(str)
        neg == s0 # <<>> /\ s0[1] = 45
        s1  == IF s0 # <<>> /\ IsSign(s0[1]) THEN Tail(s0) ELSE s0
        s2  == IF radix = 16 /\ HasHexPrefix(s1) THEN Slice(s1, 2, Len(s1)) ELSE s1
        n   == DigitPrefix(s2, radix)
        v   == DigitsValue(SubSeq(s2, 1, n), radix)
    IN  IF n = 0 THEN None ELSE Some(IF neg THEN 0 - v ELSE v)

\* Number(s) for the trimmed, non-empty strings parseContentLength gives it:
\* [nan, int, val].  A hexadecimal literal 0x.., and a decimal literal with
\* an optional sign, fraction and exponent, are numbers; anything else
\* (Infinity and the 0o/0b literals are not modelled) is NaN.
NumberNaN == [nan |-> TRUE, int |-> FALSE, val |-> 0]

\* mant * 10^exp
NumberScale(mant, exp) ==
    IF exp >= 0 THEN [nan |-> FALSE, int |-> TRUE, val |-> mant * Pow10(exp)]
    ELSE IF mant % Pow10(0 - exp) = 0
         THEN [nan |-> FALSE, int |-> TRUE, val |-> mant \div Pow10(0 - exp)]
         ELSE [nan |-> FALSE, int |-> FALSE, val |-> 0]

\* integer digits ip, fraction digits fp, exponent ev
NumberFinish(ip, fp, ev) ==
    IF Len(ip) + Len(fp) = 0 THEN NumberNaN
    ELSE NumberScale(DigitsValue(ip \o fp, 10), ev - Len(fp))

\* what follows the e or E of a decimal literal
NumberExponent(ip, fp, r4) ==
    LET r5 == IF r4 # <<>> /\ IsSign(r4[1]) THEN Tail(r4) ELSE r4
    IN  IF r5 = <<>> \/ DigitPrefix(r5, 10) # Len(r5) THEN NumberNaN
        ELSE IF r4[1] = 45 THEN NumberFinish(ip, fp, 0 - DigitsValue(r5, 10))
        ELSE NumberFinish(ip, fp, DigitsValue(r5, 10))

\* what follows the integer and fraction digits
NumberTail(ip, fp, r3) ==
    IF r3 = <<>> THEN NumberFinish(ip, fp, 0)
    ELSE IF r3[1] = 101 \/ r3[1] = 69 THEN NumberExponent(ip, fp, Tail(r3))
    ELSE NumberNaN

\* what follows the integer digits
NumberFraction(ip, r1) ==
    IF r1 # <<>> /\ r1[1] = 46
    THEN NumberTail(ip, SubSeq(r1, 2, 1 + DigitPrefix(Tail(r1), 10)),
                    Slice(r1, 1 + DigitPrefix(Tail(r1), 10), Len(r1)))
    ELSE NumberTail(ip, <<>>, r1)

\* an unsigned decimal literal
NumberDecimal(s1) ==
    NumberFraction(SubSeq(s1, 1, DigitPrefix(s1, 10)),
                   Slice(s1, DigitPrefix(s1, 10), Len(s1)))

NumberNegate(n) == [n EXCEPT !.val = 0 - @]

\* a hexadecimal literal 0x..
NumberHex(digits) ==
    IF digits # <<>> /\ DigitPrefix(digits, 16) = Len(digits)
    THEN [nan |-> FALSE, int |-> TRUE, val |-> DigitsValue(digits, 16)]
    ELSE NumberNaN

Number(str) ==
    LET s == trim(str)
    IN  IF s = <<>> THEN [nan |-> FALSE, int |-> TRUE, val |-> 0]
        ELSE IF HasHexPrefix(s) THEN NumberHex(Slice(s, 2, Len(s)))
        ELSE IF s[1] = 45 THEN NumberNegate(NumberDecimal(Tail(s)))
        ELSE IF s[1] = 43 THEN NumberDecimal(Tail(s))
        ELSE NumberDecimal(s)

(***************************************************************************)
(* Validators (errors.ts).                                                 *)
(***************************************************************************)
standardMethods == {
    <<71, 69, 84>>,                     \* GET
    <<72, 69, 65, 68>>,                 \* HEAD
    <<80, 79, 83, 84>>,                 \* POST
    <<80, 85, 84>>,                     \* PUT
    <<68, 69, 76, 69, 84, 69>>,         \* DELETE
    <<67, 79, 78, 78, 69, 67, 84>>,     \* CONNECT
    <<79, 80, 84, 73, 79, 78, 83>>,     \* OPTIONS
    <<84, 82, 65, 67, 69>>,             \* TRACE
    <<80, 65, 84, 67, 72>> }            \* PATCH

\* ( ) < > @ , ; : \ " / [ ] ? = { } SP HT
separatorChars ==
    {40, 41, 60, 62, 64, 44, 59, 58, 92, 34, 47, 91, 93, 63, 61, 123, 125, 32, 9}

MaxMethodLength == 100
MaxHeaderNameLength == 256
MaxHeaderValueLength == 8192
MaxTargetLength == 8192

isValidMethod(method) ==
    IF method \in standardMethods THEN TRUE
    ELSE IF Len(method) = 0 \/ Len(method) > MaxMethodLength THEN FALSE
    ELSE \A i \in 1..Len(method) :
            /\ ~(method[i] <= 31 \/ method[i] = DEL)
            /\ method[i] \notin separatorChars

HTTP_1_0 == <<72, 84, 84, 80, 47, 49, 46, 48>>    \* HTTP/1.0
HTTP_1_1 == <<72, 84, 84, 80, 47, 49, 46, 49>>    \* HTTP/1.1

isValidVersion(version) == version = HTTP_1_0 \/ version = HTTP_1_1

\* statusCode is None for NaN: every comparison with NaN is false
isValidStatusCode(statusCode) ==
    statusCode # None /\ statusCode[1] >= 100 /\ statusCode[1] <= 999

isValidHeaderName(name, allowUnderscore) ==
    IF Len(name) = 0 \/ Len(name) > MaxHeaderNameLength THEN FALSE
    ELSE \A i \in 1..Len(name) :
            /\ ~(name[i] <= 31 \/ name[i] = DEL)
            /\ ~(~allowUnderscore /\ name[i] = UNDERSCORE)
            /\ name[i] \notin separatorChars

isValidHeaderValue(value) ==
    IF Len(value) > MaxHeaderValueLength THEN FALSE
    ELSE \A i \in 1..Len(value) :
            \/ value[i] = HTAB
            \/ value[i] = LF
            \/ value[i] = FF
            \/ value[i] = CR
            \/ (value[i] >= 32 /\ value[i] <= 126)

isValidTarget(target) ==
    IF Len(target) = 0 \/ Len(target) > MaxTargetLength THEN FALSE
    ELSE IF target[1] = 47 THEN TRUE                     \* origin-form "/..."
    ELSE IF Includes(target, <<58, 47, 47>>) THEN TRUE   \* absolute-form "://"
    ELSE IF target = <<42>> THEN TRUE                    \* asterisk-form "*"
    ELSE IF ~Includes(target, <<47>>) /\ Includes(target, <<58>>) THEN TRUE
    ELSE FALSE

\* parseContentLength: None is null
parseContentLength(value0) ==
    LET value  == trim(value0)
        length == Number(value)
    IN  IF value = <<>> THEN None
        ELSE IF length.nan \/ ~length.int \/ length.val < 0 THEN None
        ELSE Some(length.val)

\* parseChunkSize: None is null
parseChunkSize(hex0, maxSize) ==
    LET hex  == trim(hex0)
        size == parseInt(hex, 16)
    IN  IF hex = <<>> THEN None
        ELSE IF size = None \/ size[1] < 0 THEN None
        ELSE IF size[1] > maxSize THEN None
        ELSE size

(***************************************************************************)
(* Start-line tokenizers (request.ts, response.ts).                        *)
(***************************************************************************)
\* the position of the first CR LF in data[start, end), -1 when none
FindCrlf(data, start, end) ==
    FirstIndex({i \in start..(end - 2) : At(data, i) = CR /\ At(data, i + 1) = LF})

\* the position of the first SP in data[from, lineEnd), -1 when none
FindSpace(data, from, lineEnd) ==
    FirstIndex({i \in from..(lineEnd - 1) : At(data, i) = SPACE})

RequestLineResult(requestLine, bytesConsumed, needsMoreData, error) ==
    [requestLine |-> requestLine, bytesConsumed |-> bytesConsumed,
     needsMoreData |-> needsMoreData, error |-> error]

\* a parseRequestLine that counts the consumed bytes from start
parseRequestLine_fromStart(data, start, end) ==
    LET crlfPos     == FindCrlf(data, start, end)
        hasCrlf     == crlfPos # -1
        lineEnd     == IF hasCrlf THEN crlfPos ELSE end
        firstSpace  == FindSpace(data, start, lineEnd)
        secondSpace0 == FindSpace(data, firstSpace + 1, lineEnd)
        secondSpace == IF secondSpace0 = -1 THEN lineEnd ELSE secondSpace0
        method      == decodeUtf8(Slice(data, start, firstSpace))
        target      == decodeUtf8(Slice(data, firstSpace + 1, secondSpace))
        version     == decodeUtf8(Slice(data, secondSpace + 1, lineEnd))
    IN  IF firstSpace = -1
        THEN RequestLineResult(None, 0, TRUE, None)
        ELSE IF secondSpace0 = -1 /\ ~hasCrlf
        THEN RequestLineResult(None, 0, TRUE, None)
        ELSE IF ~isValidMethod(method)
        THEN RequestLineResult(None, 0, FALSE, Some("Invalid HTTP method"))
        ELSE IF ~isValidTarget(target)
        THEN RequestLineResult(None, 0, FALSE, Some("Invalid request target"))
        ELSE IF ~isValidVersion(version)
        THEN RequestLineResult(None, 0, FALSE, Some("Invalid HTTP version"))
        ELSE RequestLineResult(
                Some([method |-> method, target |-> target, version |-> version]),
                IF hasCrlf THEN crlfPos + 2 - start ELSE end - start, FALSE, None)

parseRequestLine(data, start, end) ==
    LET crlfPos     == FindCrlf(data, start, end)
        hasCrlf     == crlfPos # -1
        lineEnd     == IF hasCrlf THEN crlfPos ELSE end
        firstSpace  == FindSpace(data, start, lineEnd)
        secondSpace0 == FindSpace(data, firstSpace + 1, lineEnd)
        secondSpace == IF secondSpace0 = -1 THEN lineEnd ELSE secondSpace0
        method      == decodeUtf8(Slice(data, start, firstSpace))
        target      == decodeUtf8(Slice(data, firstSpace + 1, secondSpace))
        version     == decodeUtf8(Slice(data, secondSpace + 1, lineEnd))
    IN  IF firstSpace = -1
        THEN RequestLineResult(None, 0, TRUE, None)
        ELSE IF secondSpace0 = -1 /\ ~hasCrlf
        THEN RequestLineResult(None, 0, TRUE, None)
        ELSE IF ~isValidMethod(method)
        THEN RequestLineResult(None, 0, FALSE, Some("Invalid HTTP method"))
        ELSE IF ~isValidTarget(target)
        THEN RequestLineResult(None, 0, FALSE, Some("Invalid request target"))
        ELSE IF ~isValidVersion(version)
        THEN RequestLineResult(None, 0, FALSE, Some("Invalid HTTP version"))
        ELSE RequestLineResult(
                Some([method |-> method, target |-> target, version |-> version]),
                IF hasCrlf THEN crlfPos + 2 ELSE end - start, FALSE, None)

StatusLineResult(statusLine, bytesConsumed, needsMoreData, error) ==
    [statusLine |-> statusLine, bytesConsumed |-> bytesConsumed,
     needsMoreData |-> needsMoreData, error |-> error]

parseStatusLine(data, start, end) ==
    LET crlfPos     == FindCrlf(data, start, end)
        hasCrlf     == crlfPos # -1
        lineEnd     == IF hasCrlf THEN crlfPos ELSE end
        firstSpace  == FindSpace(data, start, lineEnd)
        secondSpace0 == FindSpace(data, firstSpace + 1, lineEnd)
        secondSpace == IF secondSpace0 = -1 THEN lineEnd ELSE secondSpace0
        version     == decodeUtf8(Slice(data, start, firstSpace))
        statusCode  == parseInt(decodeUtf8(Slice(data, firstSpace + 1, secondSpace)), 10)
        reasonPhrase == decodeUtf8(Slice(data, secondSpace + 1, lineEnd))
    IN  IF firstSpace = -1
        THEN StatusLineResult(None, 0, TRUE, None)
        ELSE IF secondSpace0 = -1 /\ ~hasCrlf
        THEN StatusLineResult(None, 0, TRUE, None)
        ELSE IF ~isValidVersion(version)
        THEN StatusLineResult(None, 0, FALSE, Some("Invalid HTTP version"))
        ELSE IF ~isValidStatusCode(statusCode)
        THEN StatusLineResult(None, 0, FALSE, Some("Invalid status code"))
        ELSE StatusLineResult(
                Some([version |-> version, statusCode |-> statusCode[1],
                      statusText |-> reasonPhrase]),
                IF hasCrlf THEN crlfPos + 2 ELSE end - start, FALSE, None)

(***************************************************************************)
(* The header container (headers.ts).  headers is the Map of entries in    *)
(* insertion order, each under its unique key; lowerCaseMap is the Map     *)
(* from a lowercased name to the keys of its entries.  A key is            *)
(* name::Date.now()::random.  HeadersMap_append takes the next value of a  *)
(* counter for the time and random part, which never repeats;              *)
(* HeadersMap_appendKey takes it from its caller, so that two entries of   *)
(* one name can be given the same key.                                     *)
(***************************************************************************)
NewHeadersMap == [headers |-> <<>>, lowerCaseMap |-> <<>>, nextKey |-> 1]

\* Map.get on a sequence of [key, ...] records: None when the key is absent
MapIndex(map, key) == FirstIndex({i \in 1..Len(map) : map[i].key = key})

HeadersMap_lookup(h, lowerName) ==
    LET i == MapIndex(h.lowerCaseMap, lowerName)
    IN  IF i = -1 THEN None ELSE Some(h.lowerCaseMap[i].keys)

HeadersMap_valueOf(h, uniqueKey) ==
    LET i == MapIndex(h.headers, uniqueKey)
    IN  IF i = -1 THEN <<>> ELSE h.headers[i].value

\* getAll(name)
HeadersMap_getAll(h, name) ==
    LET originalNames == HeadersMap_lookup(h, toLowerCase(name))
    IN  IF originalNames = None THEN <<>>
        ELSE [i \in 1..Len(originalNames[1]) |->
                HeadersMap_valueOf(h, originalNames[1][i])]

\* get(name): None is undefined
HeadersMap_get(h, name) ==
    LET originalNames == HeadersMap_lookup(h, toLowerCase(name))
    IN  IF originalNames = None \/ Len(originalNames[1]) = 0 THEN None
        ELSE Some(join(HeadersMap_getAll(h, name)))

\* append(name, value) when Date.now() and Math.random() give stamp: the
\* unique key is made of the name and the stamp, and Map.set on a key the
\* map already holds replaces that entry where it stands
HeadersMap_appendKey(h, name, value, stamp) ==
    LET lowerName == toLowerCase(name)
        uniqueKey == <<name, stamp>>
        i         == MapIndex(h.lowerCaseMap, lowerName)
        k         == MapIndex(h.headers, uniqueKey)
    IN  [headers |->
            IF k = -1
            THEN Append(h.headers, [key |-> uniqueKey, name |-> name, value |-> value])
            ELSE [h.headers EXCEPT ![k] = [key |-> uniqueKey, name |-> name, value |-> value]],
         lowerCaseMap |->
            IF i = -1
            THEN Append(h.lowerCaseMap, [key |-> lowerName, keys |-> <<uniqueKey>>])
            ELSE [h.lowerCaseMap EXCEPT ![i].keys = Append(@, uniqueKey)],
         nextKey |-> h.nextKey]

\* append(name, value) with a stamp no earlier call was given
HeadersMap_append(h, name, value) ==
    [HeadersMap_appendKey(h, name, value, h.nextKey) EXCEPT !.nextKey = @ + 1]

\* Map.delete(key) on a sequence of [key, ...] records
MapDelete(map, key) == SelectSeq(map, LAMBDA e : e.key # key)

\* has(name)
HeadersMap_has(h, name) == MapIndex(h.lowerCaseMap, toLowerCase(name)) # -1

\* the loop of set and delete: headers.delete(originalName) for each key
RECURSIVE DeleteKeys(_, _)
DeleteKeys(headers, keys) ==
    IF keys = <<>> THEN headers
    ELSE DeleteKeys(MapDelete(headers, keys[1]), Tail(keys))

\* what set and delete leave of the container for the lowercase name
HeadersMap_without(h, lowerName) ==
    [headers |-> IF HeadersMap_lookup(h, lowerName) = None THEN h.headers
                 ELSE DeleteKeys(h.headers, HeadersMap_lookup(h, lowerName)[1]),
     lowerCaseMap |-> MapDelete(h.lowerCaseMap, lowerName),
     nextKey |-> h.nextKey]

\* set(name, value), its append given stamp
HeadersMap_set(h, name, value, stamp) ==
    HeadersMap_appendKey(HeadersMap_without(h, toLowerCase(name)), name, value, stamp)

\* delete(name): the container it leaves and the boolean it returns
HeadersMap_delete(h, name) ==
    IF HeadersMap_lookup(h, toLowerCase(name)) # None
    THEN [h |-> HeadersMap_without(h, toLowerCase(name)), ret |-> TRUE]
    ELSE [h |-> h, ret |-> FALSE]

\* names(): the loop over the entries from the i-th on
RECURSIVE HeadersMap_namesFrom(_, _, _)
HeadersMap_namesFrom(h, i, uniqueNames) ==
    IF i > Len(h.headers) THEN uniqueNames
    ELSE HeadersMap_namesFrom(h, i + 1,
            IF \E j \in 1..Len(uniqueNames) : uniqueNames[j] = h.headers[i].name
            THEN uniqueNames ELSE Append(uniqueNames, h.headers[i].name))

\* names() that takes names differing in letter case for one name
RECURSIVE HeadersMap_namesCaselessFrom(_, _, _)
HeadersMap_namesCaselessFrom(h, i, uniqueNames) ==
    IF i > Len(h.headers) THEN uniqueNames
    ELSE HeadersMap_namesCaselessFrom(h, i + 1,
            IF \E j \in 1..Len(uniqueNames) :
                  toLowerCase(uniqueNames[j]) = toLowerCase(h.headers[i].name)
            THEN uniqueNames ELSE Append(uniqueNames, h.headers[i].name))

HeadersMap_names_caseless(h) == HeadersMap_namesCaselessFrom(h, 1, <<>>)

HeadersMap_names(h) == HeadersMap_namesFrom(h, 1, <<>>)

\* size
HeadersMap_size(h) == Len(h.lowerCaseMap)

\* clear()
HeadersMap_clear(h) == [h EXCEPT !.headers = <<>>, !.lowerCaseMap = <<>>]

\* toArray()
HeadersMap_toArray(h) ==
    [i \in 1..Len(h.headers) |-> [name |-> h.headers[i].name, value |-> h.headers[i].value]]

\* new HeadersMap(initialHeaders), the i-th append given stamps[i]
RECURSIVE HeadersMap_from(_, _, _)
HeadersMap_from(h, initialHeaders, stamps) ==
    IF initialHeaders = <<>> THEN h
    ELSE HeadersMap_from(
            HeadersMap_appendKey(h, initialHeaders[1].name, initialHeaders[1].value, stamps[1]),
            Tail(initialHeaders), Tail(stamps))

\* clone()
HeadersMap_clone(h, stamps) == HeadersMap_from(NewHeadersMap, HeadersMap_toArray(h), stamps)

\* toBytes(): the lines of the entries from the i-th on, and the empty line
RECURSIVE HeadersMap_bytesFrom(_, _)
HeadersMap_bytesFrom(h, i) ==
    IF i > Len(h.headers) THEN <<CR, LF>>
    ELSE h.headers[i].name \o <<COLON, SPACE>> \o h.headers[i].value \o <<CR, LF>>
         \o HeadersMap_bytesFrom(h, i + 1)

HeadersMap_toBytes(h) == HeadersMap_bytesFrom(h, 1)

\* equals(other)
HeadersMap_equals(h, other) ==
    /\ Len(h.headers) = Len(other.headers)
    /\ \A i \in 1..Len(h.headers) :
          \E j \in 1..Len(HeadersMap_getAll(other, h.headers[i].name)) :
              HeadersMap_getAll(other, h.headers[i].name)[j] = h.headers[i].value

\* the [name, value] pairs the iterator yields
HeadersMap_entries(h) ==
    [i \in 1..Len(h.headers) |-> <<h.headers[i].name, h.headers[i].value>>]

HeadersMap_totalEntries(h) == Len(h.headers)

\* a parseHeaderLine that lets a line without value through
parseHeaderLine_emptyValue(line) ==
    LET colonIndex == IndexOf(line, COLON)
        name  == trim(Slice(line, 0, colonIndex))
        value == trim(Slice(line, colonIndex + 1, Len(line)))
    IN  IF colonIndex = -1 THEN None
        ELSE IF name = <<>> THEN None
        ELSE Some(<<name, value>>)

\* parseHeaderLine(line): None is null
parseHeaderLine(line) ==
    LET colonIndex == IndexOf(line, COLON)
        name  == trim(Slice(line, 0, colonIndex))
        value == trim(Slice(line, colonIndex + 1, Len(line)))
    IN  IF colonIndex = -1 THEN None
        ELSE IF name = <<>> THEN None
        ELSE IF value = <<>> THEN None
        ELSE Some(<<name, value>>)

\* the defaults of parseHeaders(headerText, maxHeaders, maxLineLength)
DefaultMaxHeaders == 256
DefaultMaxLineLength == 8192

\* a parseHeaders that fails one line later
RECURSIVE parseHeadersFrom_oneMore(_, _, _, _, _)
parseHeadersFrom_oneMore(lines, i, headers, maxHeaders, maxLineLength) ==
    IF i > Len(lines) THEN Some(headers)
    ELSE IF Len(lines[i]) > maxLineLength THEN None
    ELSE IF lines[i] = <<>> THEN Some(headers)
    ELSE IF HeadersMap_totalEntries(headers) > maxHeaders THEN None
    ELSE LET parsed == parseHeaderLine(lines[i])
         IN  IF parsed = None THEN None
             ELSE parseHeadersFrom_oneMore(lines, i + 1,
                    HeadersMap_append(headers, parsed[1][1], parsed[1][2]),
                    maxHeaders, maxLineLength)

\* the loop of parseHeaders over lines[i..]: None is null
RECURSIVE parseHeadersFrom(_, _, _, _, _)
parseHeadersFrom(lines, i, headers, maxHeaders, maxLineLength) ==
    IF i > Len(lines) THEN Some(headers)
    ELSE IF Len(lines[i]) > maxLineLength THEN None
    ELSE IF lines[i] = <<>> THEN Some(headers)
    ELSE IF HeadersMap_totalEntries(headers) >= maxHeaders THEN None
    ELSE LET parsed == parseHeaderLine(lines[i])
         IN  IF parsed = None THEN None
             ELSE parseHeadersFrom(lines, i + 1,
                    HeadersMap_append(headers, parsed[1][1], parsed[1][2]),
                    maxHeaders, maxLineLength)

parseHeaders(headerText, maxHeaders, maxLineLength) ==
    parseHeadersFrom(splitCRLF(headerText), 1, NewHeadersMap, maxHeaders, maxLineLength)

\* the loop of parseHeaders when the append of lines[i] is given stamps[i]
RECURSIVE parseHeadersStampedFrom(_, _, _, _, _, _)
parseHeadersStampedFrom(lines, i, headers, maxHeaders, maxLineLength, stamps) ==
    IF i > Len(lines) THEN Some(headers)
    ELSE IF Len(lines[i]) > maxLineLength THEN None
    ELSE IF lines[i] = <<>> THEN Some(headers)
    ELSE IF HeadersMap_totalEntries(headers) >= maxHeaders THEN None
    ELSE IF parseHeaderLine(lines[i]) = None THEN None
    ELSE parseHeadersStampedFrom(lines, i + 1,
            HeadersMap_appendKey(headers, parseHeaderLine(lines[i])[1][1],
                                 parseHeaderLine(lines[i])[1][2], stamps[i]),
            maxHeaders, maxLineLength, stamps)

\* parseHeaders(headerText, maxHeaders, maxLineLength), its appends given stamps
parseHeadersStamped(headerText, maxHeaders, maxLineLength, stamps) ==
    parseHeadersStampedFrom(splitCRLF(headerText), 1, NewHeadersMap,
                            maxHeaders, maxLineLength, stamps)

(***************************************************************************)
(* The streaming parser (parser.ts).  The options are those of             *)
(* DEFAULT_OPTIONS with the four size limits scaled down so that inputs of *)
(* a few dozen bytes reach them.                                           *)
(***************************************************************************)
maxBodySize == 10
maxChunks == 2
maxHeaders == 2
maxHeaderLineLength == 40

options ==
    [allowUnderscoreInHeaders |-> TRUE,
     maxBodySize |-> maxBodySize,
     maxChunks |-> maxChunks,
     maxHeaderLineLength |-> maxHeaderLineLength,
     maxHeaders |-> maxHeaders,
     validateHeaderNames |-> TRUE,
     validateHeaderValues |-> TRUE]

\* the fields of an HttpParser as its constructor leaves them
NewHttpParser ==
    [state |-> "IDLE",
     buffer |-> <<>>,
     bufferOffset |-> 0,
     messageType |-> "null",
     requestLine |-> None,
     statusLine |-> None,
     headers |-> None,
     body |-> None,
     bodyLength |-> 0,
     chunkSize |-> 0,
     chunkBytesRead |-> 0,
     totalChunks |-> 0,
     keepAlive |-> TRUE]

\* a reset that does not leave ERROR
reset_keepError(p, clearBuffer) ==
    [NewHttpParser EXCEPT
        !.state = IF p.state = "ERROR" THEN "ERROR" ELSE "IDLE",
        !.buffer = IF clearBuffer THEN <<>> ELSE p.buffer,
        !.bufferOffset = IF clearBuffer THEN 0 ELSE p.bufferOffset]

\* a reset that leaves the chunk counter and the keep-alive flag as they are
reset_keepCounters(p, clearBuffer) ==
    [NewHttpParser EXCEPT
        !.buffer = IF clearBuffer THEN <<>> ELSE p.buffer,
        !.bufferOffset = IF clearBuffer THEN 0 ELSE p.bufferOffset,
        !.totalChunks = p.totalChunks,
        !.keepAlive = p.keepAlive]

\* a reset between messages that leaves the body and the keep-alive flag of
\* the message before
reset_keepBody(p, clearBuffer) ==
    [NewHttpParser EXCEPT
        !.buffer = IF clearBuffer THEN <<>> ELSE p.buffer,
        !.bufferOffset = IF clearBuffer THEN 0 ELSE p.bufferOffset,
        !.body = IF clearBuffer THEN None ELSE p.body,
        !.keepAlive = IF clearBuffer THEN TRUE ELSE p.keepAlive]

\* reset(clearBuffer)
reset(p, clearBuffer) ==
    [NewHttpParser EXCEPT
        !.buffer = IF clearBuffer THEN <<>> ELSE p.buffer,
        !.bufferOffset = IF clearBuffer THEN 0 ELSE p.bufferOffset]

\* appendBuffer(data)
appendBuffer(p, data) ==
    LET compacted == IF p.bufferOffset > 0
                     THEN Slice(p.buffer, p.bufferOffset, Len(p.buffer))
                     ELSE p.buffer
    IN  [p EXCEPT !.buffer = compacted \o data, !.bufferOffset = 0]

\* compactBuffer()
compactBuffer(p) ==
    IF p.bufferOffset > 0
    THEN [p EXCEPT !.buffer = Slice(p.buffer, p.bufferOffset, Len(p.buffer)),
                   !.bufferOffset = 0]
    ELSE p

\* getBufferedBytes()
getBufferedBytes(p) == Len(p.buffer) - p.bufferOffset

\* an appendToBody that puts the new bytes before the body
appendToBody_prepend(p, data) ==
    LET body == IF p.body = None THEN data ELSE data \o p.body[1]
    IN  [p EXCEPT !.body = Some(body),
                  !.state = IF Len(body) > options.maxBodySize THEN "ERROR" ELSE @]

\* appendToBody(data): the body grows, and a body over maxBodySize sets the
\* state to ERROR; the caller goes on after the call
appendToBody(p, data) ==
    LET body == IF p.body = None THEN data ELSE p.body[1] \o data
    IN  [p EXCEPT !.body = Some(body),
                  !.state = IF Len(body) > options.maxBodySize THEN "ERROR" ELSE @]

\* what a handler returns, with the parser fields as it leaves them
Result(p, complete, needsMoreData, error, message) ==
    [p |-> p, complete |-> complete, needsMoreData |-> needsMoreData,
     error |-> error, message |-> message]

NeedsMoreData(p) == Result(p, FALSE, TRUE, FALSE, None)
Continue(p) == Result(p, FALSE, FALSE, FALSE, None)
Failure(p) == Result(p, FALSE, FALSE, TRUE, None)

\* createCompleteMessage()
createCompleteMessage(p) ==
    LET body == IF p.body = None THEN <<>> ELSE p.body[1]
        contentLength == IF p.body = None THEN None ELSE Some(Len(p.body[1]))
        message ==
            IF p.messageType = "REQUEST"
            THEN [type |-> "REQUEST", startLine |-> p.requestLine[1],
                  headers |-> p.headers[1], body |-> body, complete |-> TRUE,
                  contentLength |-> contentLength, keepAlive |-> p.keepAlive,
                  transferEncoding |-> "content-length"]
            ELSE [type |-> "RESPONSE", startLine |-> p.statusLine[1],
                  headers |-> p.headers[1], body |-> body, complete |-> TRUE,
                  contentLength |-> contentLength, keepAlive |-> p.keepAlive,
                  transferEncoding |-> "content-length"]
    IN  Result(p, TRUE, FALSE, FALSE, Some(message))

\* a parseMessageStart that does not wait for four bytes
parseMessageStart_noWait(p) ==
    IF /\ At(p.buffer, p.bufferOffset) = 72
       /\ At(p.buffer, p.bufferOffset + 1) = 84
       /\ At(p.buffer, p.bufferOffset + 2) = 84
       /\ At(p.buffer, p.bufferOffset + 3) = 80
    THEN Continue([p EXCEPT !.messageType = "RESPONSE", !.state = "STATUS_LINE"])
    ELSE Continue([p EXCEPT !.messageType = "REQUEST", !.state = "REQUEST_LINE"])

\* parseMessageStart()
parseMessageStart(p) ==
    IF Len(p.buffer) - p.bufferOffset < 4 THEN NeedsMoreData(p)
    ELSE IF /\ At(p.buffer, p.bufferOffset) = 72          \* 'H'
            /\ At(p.buffer, p.bufferOffset + 1) = 84      \* 'T'
            /\ At(p.buffer, p.bufferOffset + 2) = 84      \* 'T'
            /\ At(p.buffer, p.bufferOffset + 3) = 80      \* 'P'
    THEN Continue([p EXCEPT !.messageType = "RESPONSE", !.state = "STATUS_LINE"])
    ELSE Continue([p EXCEPT !.messageType = "REQUEST", !.state = "REQUEST_LINE"])

\* HttpParser.parseRequestLine()
Parser_parseRequestLine(p) ==
    LET result == parseRequestLine(p.buffer, p.bufferOffset, Len(p.buffer))
    IN  IF result.needsMoreData THEN NeedsMoreData(p)
        ELSE IF result.error # None THEN Failure(p)
        ELSE Continue([p EXCEPT !.requestLine = result.requestLine,
                                !.bufferOffset = @ + result.bytesConsumed,
                                !.state = "HEADERS"])

\* HttpParser.parseStatusLine()
Parser_parseStatusLine(p) ==
    LET result == parseStatusLine(p.buffer, p.bufferOffset, Len(p.buffer))
    IN  IF result.needsMoreData THEN NeedsMoreData(p)
        ELSE IF result.error # None THEN Failure(p)
        ELSE Continue([p EXCEPT !.statusLine = result.statusLine,
                                !.bufferOffset = @ + result.bytesConsumed,
                                !.state = "HEADERS"])

\* handleHeadersComplete where a Connection header overrides the HTTP/1.0 rule
handleHeadersComplete_headerWins(p0, headers) ==
    LET connection == HeadersMap_get(headers, <<99, 111, 110, 110, 101, 99, 116, 105, 111, 110>>)
        keepAlive1 == IF connection # None /\ connection[1] # <<>>
                      THEN toLowerCase(connection[1]) # <<99, 108, 111, 115, 101>>  \* "close"
                      ELSE p0.keepAlive
        keepAlive2 == IF /\ connection = None
                         /\ p0.messageType = "RESPONSE"
                         /\ p0.statusLine # None
                         /\ p0.statusLine[1].version = HTTP_1_0
                      THEN FALSE ELSE keepAlive1
        p == [p0 EXCEPT !.headers = Some(headers), !.keepAlive = keepAlive2]
        transferEncoding == HeadersMap_get(headers,
            <<116, 114, 97, 110, 115, 102, 101, 114, 45, 101, 110, 99, 111, 100, 105, 110, 103>>)
        contentLength == HeadersMap_get(headers,
            <<99, 111, 110, 116, 101, 110, 116, 45, 108, 101, 110, 103, 116, 104>>)
        chunked == /\ transferEncoding # None /\ transferEncoding[1] # <<>>
                   /\ Includes(toLowerCase(transferEncoding[1]),
                               <<99, 104, 117, 110, 107, 101, 100>>)     \* "chunked"
        length == IF contentLength # None /\ contentLength[1] # <<>>
                  THEN parseContentLength(contentLength[1]) ELSE None
    IN  IF chunked THEN Continue([p EXCEPT !.state = "BODY_CHUNKED_SIZE"])
        ELSE IF length # None THEN
            IF length[1] = 0
            THEN createCompleteMessage([p EXCEPT !.bodyLength = 0])
            ELSE Continue([p EXCEPT !.bodyLength = length[1],
                                    !.state = "BODY_CONTENT_LENGTH"])
        ELSE createCompleteMessage(p)

\* handleHeadersComplete where Content-Length is looked at before Transfer-Encoding
handleHeadersComplete_lengthFirst(p0, headers) ==
    LET connection == HeadersMap_get(headers, <<99, 111, 110, 110, 101, 99, 116, 105, 111, 110>>)
        keepAlive1 == IF connection # None /\ connection[1] # <<>>
                      THEN toLowerCase(connection[1]) # <<99, 108, 111, 115, 101>>  \* "close"
                      ELSE p0.keepAlive
        keepAlive2 == IF /\ p0.messageType = "RESPONSE"
                         /\ p0.statusLine # None
                         /\ p0.statusLine[1].version = HTTP_1_0
                      THEN FALSE ELSE keepAlive1
        p == [p0 EXCEPT !.headers = Some(headers), !.keepAlive = keepAlive2]
        transferEncoding == HeadersMap_get(headers,
            <<116, 114, 97, 110, 115, 102, 101, 114, 45, 101, 110, 99, 111, 100, 105, 110, 103>>)
        contentLength == HeadersMap_get(headers,
            <<99, 111, 110, 116, 101, 110, 116, 45, 108, 101, 110, 103, 116, 104>>)
        chunked == /\ transferEncoding # None /\ transferEncoding[1] # <<>>
                   /\ Includes(toLowerCase(transferEncoding[1]),
                               <<99, 104, 117, 110, 107, 101, 100>>)     \* "chunked"
        length == IF contentLength # None /\ contentLength[1] # <<>>
                  THEN parseContentLength(contentLength[1]) ELSE None
    IN  IF length # None THEN
            IF length[1] = 0
            THEN createCompleteMessage([p EXCEPT !.bodyLength = 0])
            ELSE Continue([p EXCEPT !.bodyLength = length[1],
                                    !.state = "BODY_CONTENT_LENGTH"])
        ELSE IF chunked THEN Continue([p EXCEPT !.state = "BODY_CHUNKED_SIZE"])
        ELSE createCompleteMessage(p)

\* handleHeadersComplete(headers)
handleHeadersComplete(p0, headers) ==
    LET connection == HeadersMap_get(headers, <<99, 111, 110, 110, 101, 99, 116, 105, 111, 110>>)
        keepAlive1 == IF connection # None /\ connection[1] # <<>>
                      THEN toLowerCase(connection[1]) # <<99, 108, 111, 115, 101>>  \* "close"
                      ELSE p0.keepAlive
        keepAlive2 == IF /\ p0.messageType = "RESPONSE"
                         /\ p0.statusLine # None
                         /\ p0.statusLine[1].version = HTTP_1_0
                      THEN FALSE ELSE keepAlive1
        p == [p0 EXCEPT !.headers = Some(headers), !.keepAlive = keepAlive2]
        transferEncoding == HeadersMap_get(headers,
            <<116, 114, 97, 110, 115, 102, 101, 114, 45, 101, 110, 99, 111, 100, 105, 110, 103>>)
        contentLength == HeadersMap_get(headers,
            <<99, 111, 110, 116, 101, 110, 116, 45, 108, 101, 110, 103, 116, 104>>)
        chunked == /\ transferEncoding # None /\ transferEncoding[1] # <<>>
                   /\ Includes(toLowerCase(transferEncoding[1]),
                               <<99, 104, 117, 110, 107, 101, 100>>)     \* "chunked"
        length == IF contentLength # None /\ contentLength[1] # <<>>
                  THEN parseContentLength(contentLength[1]) ELSE None
    IN  IF chunked THEN Continue([p EXCEPT !.state = "BODY_CHUNKED_SIZE"])
        ELSE IF length # None THEN
            IF length[1] = 0
            THEN createCompleteMessage([p EXCEPT !.bodyLength = 0])
            ELSE Continue([p EXCEPT !.bodyLength = length[1],
                                    !.state = "BODY_CONTENT_LENGTH"])
        ELSE createCompleteMessage(p)

\* the position of the first CR LF CR LF at or after from, -1 when none
FindHeaderEnd(buffer, from) ==
    FirstIndex({i \in from..(Len(buffer) - 4) :
        /\ At(buffer, i) = CR /\ At(buffer, i + 1) = LF
        /\ At(buffer, i + 2) = CR /\ At(buffer, i + 3) = LF})

\* the validation loop of HttpParser.parseHeaders over the parsed entries
HeadersValid(parsedHeaders) ==
    \A i \in 1..Len(parsedHeaders.headers) :
        /\ options.validateHeaderNames =>
              isValidHeaderName(parsedHeaders.headers[i].name,
                                options.allowUnderscoreInHeaders)
        /\ options.validateHeaderValues =>
              isValidHeaderValue(parsedHeaders.headers[i].value)

\* HttpParser.parseHeaders()
Parser_parseHeaders(p) ==
    LET bufferLength == Len(p.buffer)
        headerEnd == FindHeaderEnd(p.buffer, p.bufferOffset)
        hasLine == FindCrlf(p.buffer, p.bufferOffset, bufferLength) # -1
        remaining == bufferLength - p.bufferOffset
        headerText == decodeUtf8(Slice(p.buffer, p.bufferOffset, headerEnd))
        parsedHeaders == parseHeaders(headerText, options.maxHeaders,
                                      options.maxHeaderLineLength)
    IN  IF headerEnd = -1 THEN
            IF hasLine /\ remaining > options.maxHeaderLineLength THEN Failure(p)
            ELSE IF /\ remaining = 2
                    /\ At(p.buffer, p.bufferOffset) = CR
                    /\ At(p.buffer, p.bufferOffset + 1) = LF
            THEN handleHeadersComplete([p EXCEPT !.bufferOffset = bufferLength],
                                       NewHeadersMap)
            ELSE NeedsMoreData(p)
        ELSE IF parsedHeaders = None THEN Failure(p)
        ELSE IF ~HeadersValid(parsedHeaders[1]) THEN Failure(p)
        ELSE handleHeadersComplete(
                [p EXCEPT !.headers = parsedHeaders, !.bufferOffset = headerEnd + 4],
                parsedHeaders[1])

\* parseBodyContentLength()
parseBodyContentLength(p) ==
    LET remaining == Len(p.buffer) - p.bufferOffset
    IN  IF remaining < p.bodyLength
        THEN NeedsMoreData(
                [appendToBody(p, Slice(p.buffer, p.bufferOffset, Len(p.buffer)))
                    EXCEPT !.bufferOffset = Len(p.buffer)])
        ELSE createCompleteMessage(
                [appendToBody(p, Slice(p.buffer, p.bufferOffset, p.bufferOffset + p.bodyLength))
                    EXCEPT !.bufferOffset = @ + p.bodyLength])

\* the size field of a chunk size line: what precedes the first ";", trimmed
ChunkSizeStr(chunkSizeLine) ==
    trim(IF IndexOf(chunkSizeLine, SEMICOLON) = -1 THEN chunkSizeLine
         ELSE Slice(chunkSizeLine, 0, IndexOf(chunkSizeLine, SEMICOLON)))

\* a parseChunkedSize() that counts the last-chunk line as a chunk
ChunkSizeParsed_countLast(p, lineEnd, size) ==
    LET p1 == [p EXCEPT !.chunkSize = size, !.chunkBytesRead = 0,
                        !.bufferOffset = lineEnd + 2, !.totalChunks = @ + 1]
    IN  IF p.totalChunks + 1 > options.maxChunks THEN Failure(p1)
        ELSE IF size = 0 THEN Continue([p1 EXCEPT !.state = "BODY_CHUNKED_TRAILER"])
        ELSE Continue([p1 EXCEPT !.state = "BODY_CHUNKED_DATA"])

\* a parseChunkedSize() that leaves the read offset at the size line
ChunkSizeParsed_keepOffset(p, lineEnd, size) ==
    LET p1 == [p EXCEPT !.chunkSize = size, !.chunkBytesRead = 0]
    IN  IF size = 0
        THEN Continue([p1 EXCEPT !.state = "BODY_CHUNKED_TRAILER",
                                 !.bufferOffset = lineEnd + 2])
        ELSE IF p.totalChunks + 1 > options.maxChunks
        THEN Failure([p1 EXCEPT !.totalChunks = @ + 1])
        ELSE Continue([p1 EXCEPT !.totalChunks = @ + 1, !.state = "BODY_CHUNKED_DATA"])

\* parseChunkedSize() once the size line has been found and parsed
ChunkSizeParsed(p, lineEnd, size) ==
    LET p1 == [p EXCEPT !.chunkSize = size, !.chunkBytesRead = 0,
                        !.bufferOffset = lineEnd + 2]
    IN  IF size = 0 THEN Continue([p1 EXCEPT !.state = "BODY_CHUNKED_TRAILER"])
        ELSE IF p.totalChunks + 1 > options.maxChunks
        THEN Failure([p1 EXCEPT !.totalChunks = @ + 1])
        ELSE Continue([p1 EXCEPT !.totalChunks = @ + 1, !.state = "BODY_CHUNKED_DATA"])

\* parseChunkedSize() once the size line has been found
ChunkSizeLine(p, lineEnd, size) ==
    IF size = None THEN Failure(p) ELSE ChunkSizeParsed(p, lineEnd, size[1])

\* parseChunkedSize()
parseChunkedSizeAt(p, lineEnd) ==
    IF lineEnd = -1 THEN NeedsMoreData(p)
    ELSE ChunkSizeLine(p, lineEnd,
            parseChunkSize(ChunkSizeStr(decodeUtf8(Slice(p.buffer, p.bufferOffset, lineEnd))),
                           options.maxBodySize))

parseChunkedSize(p) ==
    parseChunkedSizeAt(p, FindCrlf(p.buffer, p.bufferOffset, Len(p.buffer)))

\* parseChunkedData()
parseChunkedData(p) ==
    LET remaining == Len(p.buffer) - p.bufferOffset
        toRead == p.chunkSize - p.chunkBytesRead
        read == [appendToBody(p, Slice(p.buffer, p.bufferOffset, p.bufferOffset + toRead))
                    EXCEPT !.bufferOffset = @ + toRead]
    IN  IF remaining < toRead + 2 THEN
            IF remaining >= toRead
            THEN NeedsMoreData([read EXCEPT !.chunkBytesRead = @ + toRead])
            ELSE NeedsMoreData(
                    [appendToBody(p, Slice(p.buffer, p.bufferOffset, Len(p.buffer)))
                        EXCEPT !.bufferOffset = Len(p.buffer)])
        ELSE Continue(
                [read EXCEPT
                    !.bufferOffset =
                        IF At(read.buffer, read.bufferOffset) = CR
                           /\ At(read.buffer, read.bufferOffset + 1) = LF
                        THEN @ + 2 ELSE @,
                    !.state = "BODY_CHUNKED_SIZE"])

\* parseChunkedTrailer()
parseChunkedTrailer(p) ==
    LET bufferLength == Len(p.buffer)
        i == FindHeaderEnd(p.buffer, p.bufferOffset)
    IN  IF i # -1 THEN createCompleteMessage([p EXCEPT !.bufferOffset = i + 4])
        ELSE IF /\ bufferLength >= 2
                /\ At(p.buffer, bufferLength - 2) = CR
                /\ At(p.buffer, bufferLength - 1) = LF
        THEN createCompleteMessage([p EXCEPT !.bufferOffset = bufferLength])
        ELSE NeedsMoreData(p)

\* parseNext(): the handler of the current state
parseNext(p) ==
    CASE p.state = "IDLE" -> parseMessageStart(p)
      [] p.state = "REQUEST_LINE" -> Parser_parseRequestLine(p)
      [] p.state = "STATUS_LINE" -> Parser_parseStatusLine(p)
      [] p.state = "HEADERS" -> Parser_parseHeaders(p)
      [] p.state = "BODY_CONTENT_LENGTH" -> parseBodyContentLength(p)
      [] p.state = "BODY_CHUNKED_SIZE" -> parseChunkedSize(p)
      [] p.state = "BODY_CHUNKED_DATA" -> parseChunkedData(p)
      [] p.state = "BODY_CHUNKED_TRAILER" -> parseChunkedTrailer(p)
      [] p.state = "COMPLETE" -> Result(p, TRUE, FALSE, FALSE, None)
      [] OTHER -> Failure(p)

\* the parser after one turn of the loop of parse(): a complete message
\* compacts the buffer and resets the parser, keeping the buffer
AfterResult(result) ==
    IF result.complete THEN reset(compactBuffer(result.p), FALSE) ELSE result.p

\* the messages after one turn of the loop
PushResult(result, messages) ==
    IF result.complete THEN Append(messages, result.message[1]) ELSE messages

\* the dispatch loop of parse(): [p, messages] when the loop ends
RECURSIVE parseLoop(_, _)
RECURSIVE parseLoopBody(_, _)
parseLoopBody(result, messages) ==
    IF result.error
    THEN [p |-> [result.p EXCEPT !.state = "ERROR"], messages |-> messages]
    ELSE IF result.needsMoreData
    THEN [p |-> AfterResult(result), messages |-> PushResult(result, messages)]
    ELSE parseLoop(AfterResult(result), PushResult(result, messages))

parseLoop(p, messages) ==
    IF p.state = "ERROR" THEN [p |-> p, messages |-> messages]
    ELSE parseLoopBody(parseNext(p), messages)

\* parse(data): [p, messages]
parse(p, data) == parseLoop(appendBuffer(p, data), <<>>)

(***************************************************************************)
(* The bytes on the wire.  A message is given by its parts, so that what   *)
(* it says (start-line, header fields, body) is known apart from the       *)
(* parser: line is the start-line as sent, chunks the size lines and data  *)
(* of a chunked body, trailer the trailer lines, keepAlive what the        *)
(* glossary's rule gives, valid whether the start-line is well formed.     *)
(***************************************************************************)
\* 'GET / HTTP/1.1\r\n\r\n' (18 bytes)
ReqGet ==
    [type |-> "REQUEST",
     line |-> <<71, 69, 84, 32, 47, 32, 72, 84, 84, 80, 47, 49, 46, 49>>,
     startLine |-> [method |-> <<71, 69, 84>>, target |-> <<47>>, version |-> <<72, 84, 84, 80, 47, 49, 46, 49>>],
     hdrs |-> <<>>,
     framing |-> "none",
     body |-> <<>>,
     chunks |-> <<>>,
     trailer |-> <<>>,
     keepAlive |-> TRUE,
     valid |-> TRUE]

\* 'GET /1 HTTP/1.1\r\nHost: x\r\n\r\n' (28 bytes)
ReqHost ==
    [type |-> "REQUEST",
     line |-> <<71, 69, 84, 32, 47, 49, 32, 72, 84, 84, 80, 47, 49, 46, 49>>,
     startLine |-> [method |-> <<71, 69, 84>>, target |-> <<47, 49>>, version |-> <<72, 84, 84, 80, 47, 49, 46, 49>>],
     hdrs |-> <<<<<<72, 111, 115, 116>>, <<120>>>>>>,
     framing |-> "none",
     body |-> <<>>,
     chunks |-> <<>>,
     trailer |-> <<>>,
     keepAlive |-> TRUE,
     valid |-> TRUE]

\* 'GET /c HTTP/1.1\r\nConnection: Close\r\n\r\n' (38 bytes)
ReqClose ==
    [type |-> "REQUEST",
     line |-> <<71, 69, 84, 32, 47, 99, 32, 72, 84, 84, 80, 47, 49, 46, 49>>,
     startLine |-> [method |-> <<71, 69, 84>>, target |-> <<47, 99>>, version |-> <<72, 84, 84, 80, 47, 49, 46, 49>>],
     hdrs |-> <<<<<<67, 111, 110, 110, 101, 99, 116, 105, 111, 110>>, <<67, 108, 111, 115, 101>>>>>>,
     framing |-> "none",
     body |-> <<>>,
     chunks |-> <<>>,
     trailer |-> <<>>,
     keepAlive |-> FALSE,
     valid |-> TRUE]

\* 'POST /p HTTP/1.1\r\nContent-Length: 3\r\n\r\nabc' (42 bytes)
ReqPost ==
    [type |-> "REQUEST",
     line |-> <<80, 79, 83, 84, 32, 47, 112, 32, 72, 84, 84, 80, 47, 49, 46, 49>>,
     startLine |-> [method |-> <<80, 79, 83, 84>>, target |-> <<47, 112>>, version |-> <<72, 84, 84, 80, 47, 49, 46, 49>>],
     hdrs |-> <<<<<<67, 111, 110, 116, 101, 110, 116, 45, 76, 101, 110, 103, 116, 104>>, <<51>>>>>>,
     framing |-> "length",
     body |-> <<97, 98, 99>>,
     chunks |-> <<>>,
     trailer |-> <<>>,
     keepAlive |-> TRUE,
     valid |-> TRUE]

\* 'PUT /b HTTP/1.1\r\nContent-Length: 11\r\n\r\n0123456789X' (50 bytes)
ReqBig ==
    [type |-> "REQUEST",
     line |-> <<80, 85, 84, 32, 47, 98, 32, 72, 84, 84, 80, 47, 49, 46, 49>>,
     startLine |-> [method |-> <<80, 85, 84>>, target |-> <<47, 98>>, version |-> <<72, 84, 84, 80, 47, 49, 46, 49>>],
     hdrs |-> <<<<<<67, 111, 110, 116, 101, 110, 116, 45, 76, 101, 110, 103, 116, 104>>, <<49, 49>>>>>>,
     framing |-> "length",
     body |-> <<48, 49, 50, 51, 52, 53, 54, 55, 56, 57, 88>>,
     chunks |-> <<>>,
     trailer |-> <<>>,
     keepAlive |-> TRUE,
     valid |-> TRUE]

\* 'HTTP/1.0 200 OK\r\nContent-Length: 2\r\n\r\nhi' (40 bytes)
Resp10 ==
    [type |-> "RESPONSE",
     line |-> <<72, 84, 84, 80, 47, 49, 46, 48, 32, 50, 48, 48, 32, 79, 75>>,
     startLine |-> [version |-> <<72, 84, 84, 80, 47, 49, 46, 48>>, statusCode |-> 200, statusText |-> <<79, 75>>],
     hdrs |-> <<<<<<67, 111, 110, 116, 101, 110, 116, 45, 76, 101, 110, 103, 116, 104>>, <<50>>>>>>,
     framing |-> "length",
     body |-> <<104, 105>>,
     chunks |-> <<>>,
     trailer |-> <<>>,
     keepAlive |-> FALSE,
     valid |-> TRUE]

\* 'HTTP/1.1 200 OK\r\nTransfer-Encoding: chunked\r\n\r\n2\r\nab\r\n1;x\r\nc\r\n0\r\n\r\n' (67 bytes)
RespChunked ==
    [type |-> "RESPONSE",
     line |-> <<72, 84, 84, 80, 47, 49, 46, 49, 32, 50, 48, 48, 32, 79, 75>>,
     startLine |-> [version |-> <<72, 84, 84, 80, 47, 49, 46, 49>>, statusCode |-> 200, statusText |-> <<79, 75>>],
     hdrs |-> <<<<<<84, 114, 97, 110, 115, 102, 101, 114, 45, 69, 110, 99, 111, 100, 105, 110, 103>>, <<99, 104, 117, 110, 107, 101, 100>>>>>>,
     framing |-> "chunked",
     body |-> <<>>,
     chunks |-> <<[size |-> <<50>>, data |-> <<97, 98>>], [size |-> <<49, 59, 120>>, data |-> <<99>>]>>,
     trailer |-> <<>>,
     keepAlive |-> TRUE,
     valid |-> TRUE]

\* 'HTTP/1.1 404 Not Found\r\nTransfer-Encoding: chunked\r\n\r\nA\r\n0123456789\r\n0\r\nT: v\r\n\r\n' (80 bytes)
RespHex ==
    [type |-> "RESPONSE",
     line |-> <<72, 84, 84, 80, 47, 49, 46, 49, 32, 52, 48, 52, 32, 78, 111, 116, 32, 70, 111, 117, 110, 100>>,
     startLine |-> [version |-> <<72, 84, 84, 80, 47, 49, 46, 49>>, statusCode |-> 404, statusText |-> <<78, 111, 116, 32, 70, 111, 117, 110, 100>>],
     hdrs |-> <<<<<<84, 114, 97, 110, 115, 102, 101, 114, 45, 69, 110, 99, 111, 100, 105, 110, 103>>, <<99, 104, 117, 110, 107, 101, 100>>>>>>,
     framing |-> "chunked",
     body |-> <<>>,
     chunks |-> <<[size |-> <<65>>, data |-> <<48, 49, 50, 51, 52, 53, 54, 55, 56, 57>>]>>,
     trailer |-> <<<<84, 58, 32, 118>>>>,
     keepAlive |-> TRUE,
     valid |-> TRUE]

\* 'HTTP/1.1 200 OK\r\nTransfer-Encoding: chunked\r\n\r\na\r\n0123456789\r\n1\r\nX\r\n0\r\n\r\n' (73 bytes)
RespChunkedBig ==
    [type |-> "RESPONSE",
     line |-> <<72, 84, 84, 80, 47, 49, 46, 49, 32, 50, 48, 48, 32, 79, 75>>,
     startLine |-> [version |-> <<72, 84, 84, 80, 47, 49, 46, 49>>, statusCode |-> 200, statusText |-> <<79, 75>>],
     hdrs |-> <<<<<<84, 114, 97, 110, 115, 102, 101, 114, 45, 69, 110, 99, 111, 100, 105, 110, 103>>, <<99, 104, 117, 110, 107, 101, 100>>>>>>,
     framing |-> "chunked",
     body |-> <<>>,
     chunks |-> <<[size |-> <<97>>, data |-> <<48, 49, 50, 51, 52, 53, 54, 55, 56, 57>>], [size |-> <<49>>, data |-> <<88>>]>>,
     trailer |-> <<>>,
     keepAlive |-> TRUE,
     valid |-> TRUE]

\* 'GET / HTTP/2.0\r\n\r\n' (18 bytes)
BadVersion ==
    [type |-> "REQUEST",
     line |-> <<71, 69, 84, 32, 47, 32, 72, 84, 84, 80, 47, 50, 46, 48>>,
     startLine |-> [method |-> <<71, 69, 84>>, target |-> <<47>>, version |-> <<72, 84, 84, 80, 47, 50, 46, 48>>],
     hdrs |-> <<>>,
     framing |-> "none",
     body |-> <<>>,
     chunks |-> <<>>,
     trailer |-> <<>>,
     keepAlive |-> TRUE,
     valid |-> FALSE]

\* 'G@T / HTTP/1.1\r\n\r\n' (18 bytes)
BadMethod ==
    [type |-> "REQUEST",
     line |-> <<71, 64, 84, 32, 47, 32, 72, 84, 84, 80, 47, 49, 46, 49>>,
     startLine |-> [method |-> <<71, 64, 84>>, target |-> <<47>>, version |-> <<72, 84, 84, 80, 47, 49, 46, 49>>],
     hdrs |-> <<>>,
     framing |-> "none",
     body |-> <<>>,
     chunks |-> <<>>,
     trailer |-> <<>>,
     keepAlive |-> TRUE,
     valid |-> FALSE]

\* 'INVALID METHOD / HTTP/1.1\r\nHost: x\r\n\r\n' (38 bytes)
BadTarget ==
    [type |-> "REQUEST",
     line |-> <<73, 78, 86, 65, 76, 73, 68, 32, 77, 69, 84, 72, 79, 68, 32, 47, 32, 72, 84, 84, 80, 47, 49, 46, 49>>,
     startLine |-> [method |-> <<73, 78, 86, 65, 76, 73, 68>>, target |-> <<77, 69, 84, 72, 79, 68>>, version |-> <<47, 32, 72, 84, 84, 80, 47, 49, 46, 49>>],
     hdrs |-> <<<<<<72, 111, 115, 116>>, <<120>>>>>>,
     framing |-> "none",
     body |-> <<>>,
     chunks |-> <<>>,
     trailer |-> <<>>,
     keepAlive |-> TRUE,
     valid |-> FALSE]

\* 'GET\r\n\r\n' (7 bytes)
NoTarget ==
    [type |-> "REQUEST",
     line |-> <<71, 69, 84>>,
     startLine |-> [method |-> <<71, 69, 84>>, target |-> <<>>, version |-> <<>>],
     hdrs |-> <<>>,
     framing |-> "none",
     body |-> <<>>,
     chunks |-> <<>>,
     trailer |-> <<>>,
     keepAlive |-> TRUE,
     valid |-> FALSE]


CRLF == <<CR, LF>>

RECURSIVE HeaderLinesWire(_)
HeaderLinesWire(hdrs) ==
    IF hdrs = <<>> THEN <<>>
    ELSE hdrs[1][1] \o <<COLON, SPACE>> \o hdrs[1][2] \o CRLF \o HeaderLinesWire(Tail(hdrs))

RECURSIVE ChunksWire(_)
ChunksWire(chunks) ==
    IF chunks = <<>> THEN <<>>
    ELSE chunks[1].size \o CRLF \o chunks[1].data \o CRLF \o ChunksWire(Tail(chunks))

RECURSIVE LinesWire(_)
LinesWire(lines) ==
    IF lines = <<>> THEN <<>> ELSE lines[1] \o CRLF \o LinesWire(Tail(lines))

RECURSIVE ChunksData(_)
ChunksData(chunks) ==
    IF chunks = <<>> THEN <<>> ELSE chunks[1].data \o ChunksData(Tail(chunks))

\* start-line CRLF *( header-field CRLF ) CRLF
HeadWire(m) == m.line \o CRLF \o HeaderLinesWire(m.hdrs) \o CRLF

\* HTTP-message = start-line CRLF *( header-field CRLF ) CRLF [ message-body ]
Wire(m) ==
    HeadWire(m) \o
    (IF m.framing = "chunked"
     THEN ChunksWire(m.chunks) \o <<48>> \o CRLF \o LinesWire(m.trailer) \o CRLF
     ELSE m.body)

\* the body the message carries
BodyOf(m) == IF m.framing = "chunked" THEN ChunksData(m.chunks) ELSE m.body

RECURSIVE WireAll(_)
WireAll(ms) == IF ms = <<>> THEN <<>> ELSE Wire(ms[1]) \o WireAll(Tail(ms))

\* the connections the model delivers: the messages sent on each, in order
MaxMessages == 2
Messages == {ReqGet, ReqHost, ReqClose, ReqPost, ReqBig, Resp10, RespChunked,
             RespHex, RespChunkedBig, BadVersion, BadMethod, BadTarget, NoTarget}
Followers == {ReqHost, ReqPost}

RECURSIVE Connections(_)
Connections(n) ==
    IF n <= 1 THEN {<<m>> : m \in Messages}
    ELSE Connections(n - 1)
         \cup {Append(c, m) : c \in {d \in Connections(n - 1) : Len(d) = n - 1 /\ d[n - 1].valid},
                              m \in Followers}

\* the connections, numbered
RECURSIVE SetToSeq(_)
SetToSeq(S) ==
    IF S = {} THEN <<>>
    ELSE LET x == CHOOSE y \in S : TRUE IN <<x>> \o SetToSeq(S \ {x})

MainConns == SetToSeq(Connections(MaxMessages))

(***************************************************************************)
(* Messages whose header block decides keep-alive and body framing.        *)
(***************************************************************************)
\* 'GET /k HTTP/1.1\r\nConnection: keep-alive\r\n\r\n' (43 bytes)
KaKeep ==
    [type |-> "REQUEST",
     line |-> <<71, 69, 84, 32, 47, 107, 32, 72, 84, 84, 80, 47, 49, 46, 49>>,
     startLine |-> [method |-> <<71, 69, 84>>, target |-> <<47, 107>>, version |-> <<72, 84, 84, 80, 47, 49, 46, 49>>],
     hdrs |-> <<<<<<67, 111, 110, 110, 101, 99, 116, 105, 111, 110>>, <<107, 101, 101, 112, 45, 97, 108, 105, 118, 101>>>>>>,
     framing |-> "none",
     body |-> <<>>,
     chunks |-> <<>>,
     trailer |-> <<>>,
     keepAlive |-> TRUE,
     valid |-> TRUE]

\* 'GET /u HTTP/1.1\r\nconnection: CLOSE\r\n\r\n' (38 bytes)
KaUpper ==
    [type |-> "REQUEST",
     line |-> <<71, 69, 84, 32, 47, 117, 32, 72, 84, 84, 80, 47, 49, 46, 49>>,
     startLine |-> [method |-> <<71, 69, 84>>, target |-> <<47, 117>>, version |-> <<72, 84, 84, 80, 47, 49, 46, 49>>],
     hdrs |-> <<<<<<99, 111, 110, 110, 101, 99, 116, 105, 111, 110>>, <<67, 76, 79, 83, 69>>>>>>,
     framing |-> "none",
     body |-> <<>>,
     chunks |-> <<>>,
     trailer |-> <<>>,
     keepAlive |-> FALSE,
     valid |-> TRUE]

\* 'GET /o HTTP/1.0\r\nHost: x\r\n\r\n' (28 bytes)
KaReq10 ==
    [type |-> "REQUEST",
     line |-> <<71, 69, 84, 32, 47, 111, 32, 72, 84, 84, 80, 47, 49, 46, 48>>,
     startLine |-> [method |-> <<71, 69, 84>>, target |-> <<47, 111>>, version |-> <<72, 84, 84, 80, 47, 49, 46, 48>>],
     hdrs |-> <<<<<<72, 111, 115, 116>>, <<120>>>>>>,
     framing |-> "none",
     body |-> <<>>,
     chunks |-> <<>>,
     trailer |-> <<>>,
     keepAlive |-> TRUE,
     valid |-> TRUE]

\* 'GET /l HTTP/1.1\r\nConnection: close, TE\r\n\r\n' (42 bytes)
KaList ==
    [type |-> "REQUEST",
     line |-> <<71, 69, 84, 32, 47, 108, 32, 72, 84, 84, 80, 47, 49, 46, 49>>,
     startLine |-> [method |-> <<71, 69, 84>>, target |-> <<47, 108>>, version |-> <<72, 84, 84, 80, 47, 49, 46, 49>>],
     hdrs |-> <<<<<<67, 111, 110, 110, 101, 99, 116, 105, 111, 110>>, <<99, 108, 111, 115, 101, 44, 32, 84, 69>>>>>>,
     framing |-> "none",
     body |-> <<>>,
     chunks |-> <<>>,
     trailer |-> <<>>,
     keepAlive |-> TRUE,
     valid |-> TRUE]

\* 'HTTP/1.0 200 OK\r\nConnection: keep-alive\r\n\r\n' (43 bytes)
KaResp10Keep ==
    [type |-> "RESPONSE",
     line |-> <<72, 84, 84, 80, 47, 49, 46, 48, 32, 50, 48, 48, 32, 79, 75>>,
     startLine |-> [version |-> <<72, 84, 84, 80, 47, 49, 46, 48>>, statusCode |-> 200, statusText |-> <<79, 75>>],
     hdrs |-> <<<<<<67, 111, 110, 110, 101, 99, 116, 105, 111, 110>>, <<107, 101, 101, 112, 45, 97, 108, 105, 118, 101>>>>>>,
     framing |-> "none",
     body |-> <<>>,
     chunks |-> <<>>,
     trailer |-> <<>>,
     keepAlive |-> FALSE,
     valid |-> TRUE]

\* 'HTTP/1.1 200 OK\r\nServer: s\r\n\r\n' (30 bytes)
KaResp11 ==
    [type |-> "RESPONSE",
     line |-> <<72, 84, 84, 80, 47, 49, 46, 49, 32, 50, 48, 48, 32, 79, 75>>,
     startLine |-> [version |-> <<72, 84, 84, 80, 47, 49, 46, 49>>, statusCode |-> 200, statusText |-> <<79, 75>>],
     hdrs |-> <<<<<<83, 101, 114, 118, 101, 114>>, <<115>>>>>>,
     framing |-> "none",
     body |-> <<>>,
     chunks |-> <<>>,
     trailer |-> <<>>,
     keepAlive |-> TRUE,
     valid |-> TRUE]

\* 'HTTP/1.1 200 OK\r\nConnection: close\r\n\r\n' (38 bytes)
KaResp11Close ==
    [type |-> "RESPONSE",
     line |-> <<72, 84, 84, 80, 47, 49, 46, 49, 32, 50, 48, 48, 32, 79, 75>>,
     startLine |-> [version |-> <<72, 84, 84, 80, 47, 49, 46, 49>>, statusCode |-> 200, statusText |-> <<79, 75>>],
     hdrs |-> <<<<<<67, 111, 110, 110, 101, 99, 116, 105, 111, 110>>, <<99, 108, 111, 115, 101>>>>>>,
     framing |-> "none",
     body |-> <<>>,
     chunks |-> <<>>,
     trailer |-> <<>>,
     keepAlive |-> FALSE,
     valid |-> TRUE]


\* the connections that carry them
KeepAliveConns ==
    <<<<KaKeep>>, <<KaUpper>>, <<KaReq10>>, <<KaList>>, <<KaResp10Keep>>,
      <<KaResp11>>, <<KaResp11Close>>, <<KaResp10Keep, KaKeep>>,
      <<KaUpper, KaResp11>>>>

\* 'POST /t HTTP/1.1\r\nTransfer-Encoding: chunked\r\nContent-Length: 9\r\n\r\n2\r\nab\r\n0\r\n\r\n' (79 bytes)
FrBoth ==
    [type |-> "REQUEST",
     line |-> <<80, 79, 83, 84, 32, 47, 116, 32, 72, 84, 84, 80, 47, 49, 46, 49>>,
     startLine |-> [method |-> <<80, 79, 83, 84>>, target |-> <<47, 116>>, version |-> <<72, 84, 84, 80, 47, 49, 46, 49>>],
     hdrs |-> <<<<<<84, 114, 97, 110, 115, 102, 101, 114, 45, 69, 110, 99, 111, 100, 105, 110, 103>>, <<99, 104, 117, 110, 107, 101, 100>>>>, <<<<67, 111, 110, 116, 101, 110, 116, 45, 76, 101, 110, 103, 116, 104>>, <<57>>>>>>,
     framing |-> "chunked",
     body |-> <<>>,
     chunks |-> <<[size |-> <<50>>, data |-> <<97, 98>>]>>,
     trailer |-> <<>>,
     keepAlive |-> TRUE,
     valid |-> TRUE]

\* 'POST /m HTTP/1.1\r\nTransfer-Encoding: gzip, Chunked\r\n\r\n1\r\nz\r\n0\r\n\r\n' (65 bytes)
FrMixed ==
    [type |-> "REQUEST",
     line |-> <<80, 79, 83, 84, 32, 47, 109, 32, 72, 84, 84, 80, 47, 49, 46, 49>>,
     startLine |-> [method |-> <<80, 79, 83, 84>>, target |-> <<47, 109>>, version |-> <<72, 84, 84, 80, 47, 49, 46, 49>>],
     hdrs |-> <<<<<<84, 114, 97, 110, 115, 102, 101, 114, 45, 69, 110, 99, 111, 100, 105, 110, 103>>, <<103, 122, 105, 112, 44, 32, 67, 104, 117, 110, 107, 101, 100>>>>>>,
     framing |-> "chunked",
     body |-> <<>>,
     chunks |-> <<[size |-> <<49>>, data |-> <<122>>]>>,
     trailer |-> <<>>,
     keepAlive |-> TRUE,
     valid |-> TRUE]

\* 'POST /g HTTP/1.1\r\nTransfer-Encoding: gzip\r\nContent-Length: 2\r\n\r\nhi' (66 bytes)
FrGzip ==
    [type |-> "REQUEST",
     line |-> <<80, 79, 83, 84, 32, 47, 103, 32, 72, 84, 84, 80, 47, 49, 46, 49>>,
     startLine |-> [method |-> <<80, 79, 83, 84>>, target |-> <<47, 103>>, version |-> <<72, 84, 84, 80, 47, 49, 46, 49>>],
     hdrs |-> <<<<<<84, 114, 97, 110, 115, 102, 101, 114, 45, 69, 110, 99, 111, 100, 105, 110, 103>>, <<103, 122, 105, 112>>>>, <<<<67, 111, 110, 116, 101, 110, 116, 45, 76, 101, 110, 103, 116, 104>>, <<50>>>>>>,
     framing |-> "length",
     body |-> <<104, 105>>,
     chunks |-> <<>>,
     trailer |-> <<>>,
     keepAlive |-> TRUE,
     valid |-> TRUE]

\* 'POST /z HTTP/1.1\r\nContent-Length: 0\r\n\r\n' (39 bytes)
FrZero ==
    [type |-> "REQUEST",
     line |-> <<80, 79, 83, 84, 32, 47, 122, 32, 72, 84, 84, 80, 47, 49, 46, 49>>,
     startLine |-> [method |-> <<80, 79, 83, 84>>, target |-> <<47, 122>>, version |-> <<72, 84, 84, 80, 47, 49, 46, 49>>],
     hdrs |-> <<<<<<67, 111, 110, 116, 101, 110, 116, 45, 76, 101, 110, 103, 116, 104>>, <<48>>>>>>,
     framing |-> "none",
     body |-> <<>>,
     chunks |-> <<>>,
     trailer |-> <<>>,
     keepAlive |-> TRUE,
     valid |-> TRUE]

\* 'POST /n HTTP/1.1\r\nContent-Length: abc\r\n\r\n' (41 bytes)
FrBad ==
    [type |-> "REQUEST",
     line |-> <<80, 79, 83, 84, 32, 47, 110, 32, 72, 84, 84, 80, 47, 49, 46, 49>>,
     startLine |-> [method |-> <<80, 79, 83, 84>>, target |-> <<47, 110>>, version |-> <<72, 84, 84, 80, 47, 49, 46, 49>>],
     hdrs |-> <<<<<<67, 111, 110, 116, 101, 110, 116, 45, 76, 101, 110, 103, 116, 104>>, <<97, 98, 99>>>>>>,
     framing |-> "none",
     body |-> <<>>,
     chunks |-> <<>>,
     trailer |-> <<>>,
     keepAlive |-> TRUE,
     valid |-> TRUE]

\* 'HTTP/1.1 200 OK\r\nContent-Length: -1\r\n\r\n' (39 bytes)
FrNeg ==
    [type |-> "RESPONSE",
     line |-> <<72, 84, 84, 80, 47, 49, 46, 49, 32, 50, 48, 48, 32, 79, 75>>,
     startLine |-> [version |-> <<72, 84, 84, 80, 47, 49, 46, 49>>, statusCode |-> 200, statusText |-> <<79, 75>>],
     hdrs |-> <<<<<<67, 111, 110, 116, 101, 110, 116, 45, 76, 101, 110, 103, 116, 104>>, <<45, 49>>>>>>,
     framing |-> "none",
     body |-> <<>>,
     chunks |-> <<>>,
     trailer |-> <<>>,
     keepAlive |-> TRUE,
     valid |-> TRUE]

\* 'HTTP/1.1 200 OK\r\nTransfer-Encoding: identity\r\n\r\n' (48 bytes)
FrIdentity ==
    [type |-> "RESPONSE",
     line |-> <<72, 84, 84, 80, 47, 49, 46, 49, 32, 50, 48, 48, 32, 79, 75>>,
     startLine |-> [version |-> <<72, 84, 84, 80, 47, 49, 46, 49>>, statusCode |-> 200, statusText |-> <<79, 75>>],
     hdrs |-> <<<<<<84, 114, 97, 110, 115, 102, 101, 114, 45, 69, 110, 99, 111, 100, 105, 110, 103>>, <<105, 100, 101, 110, 116, 105, 116, 121>>>>>>,
     framing |-> "none",
     body |-> <<>>,
     chunks |-> <<>>,
     trailer |-> <<>>,
     keepAlive |-> TRUE,
     valid |-> TRUE]


\* the connections that carry them
FramingConns ==
    <<<<FrBoth>>, <<FrMixed>>, <<FrGzip>>, <<FrZero>>, <<FrBad>>, <<FrNeg>>,
      <<FrIdentity>>, <<FrBad, ReqHost>>, <<FrZero, ReqPost>>, <<FrGzip, ReqHost>>>>

HeaderConns == KeepAliveConns \o FramingConns

(***************************************************************************)
(* The builders createRequest and createResponse.                          *)
(***************************************************************************)
\* `${n}` for a non-negative integer n
RECURSIVE ToDecimal(_)
ToDecimal(n) ==
    IF n < 10 THEN <<48 + n>> ELSE ToDecimal(n \div 10) \o <<48 + (n % 10)>>

\* formatRequestLine(requestLine)
formatRequestLine(requestLine) ==
    requestLine.method \o <<SPACE>> \o requestLine.target \o <<SPACE>>
        \o requestLine.version \o CRLF

\* formatStatusLine(statusLine)
formatStatusLine(statusLine) ==
    statusLine.version \o <<SPACE>> \o ToDecimal(statusLine.statusCode) \o <<SPACE>>
        \o statusLine.statusText \o CRLF

\* getStatusText(statusCode), for the codes of STATUS_TEXT the model uses
getStatusText(statusCode) ==
    IF statusCode = 200 THEN <<79, 75>>
    ELSE IF statusCode = 404 THEN <<78, 111, 116, 32, 70, 111, 117, 110, 100>>
    ELSE <<>>

\* the builders without the Content-Length field they add
BuildRest_noLength(headers, body) ==
    HeaderLinesWire(headers) \o CRLF
    \o (IF body # None /\ Len(body[1]) > 0 THEN body[1] ELSE <<>>)

\* the header lines and the body both builders emit: headers is
\* Object.entries(headers), body is None when the argument is left out
BuildRest(headers, body) ==
    HeaderLinesWire(headers)
    \o (IF body # None /\ Len(body[1]) > 0
        THEN <<67, 111, 110, 116, 101, 110, 116, 45, 76, 101, 110, 103, 116, 104, 58, 32>> \o ToDecimal(Len(body[1])) \o CRLF
        ELSE <<>>)
    \o CRLF
    \o (IF body # None /\ Len(body[1]) > 0 THEN body[1] ELSE <<>>)

\* createRequest(method, target, headers, body)
createRequest(method, target, headers, body) ==
    formatRequestLine([method |-> method, target |-> target, version |-> HTTP_1_1])
        \o BuildRest(headers, body)

\* createResponse(statusCode, headers, body, statusText, httpVersion):
\* statusText is None when the argument is left out
createResponse(statusCode, headers, body, statusText, httpVersion) ==
    formatStatusLine(
        [statusCode |-> statusCode,
         statusText |-> IF statusText # None /\ statusText[1] # <<>>
                        THEN statusText[1] ELSE getStatusText(statusCode),
         version |-> httpVersion])
        \o BuildRest(headers, body)

\* the arguments the builders are called with
BuilderHeaders ==
    {<<>>,
     <<<<<<72, 111, 115, 116>>, <<120>>>>>>,
     <<<<<<72, 111, 115, 116>>, <<120>>>>, <<<<65, 99, 99, 101, 112, 116>>, <<121>>>>>>,
     <<<<<<67, 111, 110, 116, 101, 110, 116, 45, 76, 101, 110, 103, 116, 104>>, <<51>>>>>>}
BuilderBodies == {None, Some(<<>>), Some(<<97, 98, 99>>)}

RequestInputs ==
    {[fn |-> "createRequest", method |-> m, target |-> <<47, 97>>, headers |-> h, body |-> b] :
        m \in {<<71, 69, 84>>, <<80, 79, 83, 84>>}, h \in BuilderHeaders, b \in BuilderBodies}

ResponseInputs ==
    {[fn |-> "createResponse", statusCode |-> c, headers |-> h, body |-> b,
      statusText |-> t, httpVersion |-> HTTP_1_1] :
        c \in {200, 299}, h \in BuilderHeaders, b \in BuilderBodies,
        t \in {None, Some(<<70, 105, 110, 101>>)}}

BuilderInputs == SetToSeq(RequestInputs) \o SetToSeq(ResponseInputs)

\* the bytes the builder returns for the arguments
Build(in) ==
    IF in.fn = "createRequest"
    THEN createRequest(in.method, in.target, in.headers, in.body)
    ELSE createResponse(in.statusCode, in.headers, in.body, in.statusText, in.httpVersion)

\* the message the arguments describe
BuiltMessage(in) ==
    [type |-> IF in.fn = "createRequest" THEN "REQUEST" ELSE "RESPONSE",
     line |-> <<>>,
     startLine |->
        IF in.fn = "createRequest"
        THEN [method |-> in.method, target |-> in.target, version |-> HTTP_1_1]
        ELSE [version |-> in.httpVersion, statusCode |-> in.statusCode,
              statusText |-> IF in.statusText # None THEN in.statusText[1]
                             ELSE getStatusText(in.statusCode)],
     hdrs |-> in.headers,
     framing |-> "length",
     body |-> IF in.body = None THEN <<>> ELSE in.body[1],
     chunks |-> <<>>,
     trailer |-> <<>>,
     keepAlive |-> TRUE,
     valid |-> TRUE]

BuiltConns == [i \in 1..Len(BuilderInputs) |-> <<BuiltMessage(BuilderInputs[i])>>]

(***************************************************************************)
(* Header blocks: the lines a caller gives parseHeaderLine and              *)
(* parseHeaders, or sends to the parser after a request line.              *)
(***************************************************************************)
\* the header lines, with the name and value a well-formed one carries:
\* 'A: 1', 'a: 2', ' C : 4 ', 'D:\tx:y', 'A', ': 1', 'A:', 'B: \t'
HeaderLineTable ==
    <<[text |-> <<65, 58, 32, 49>>, good |-> TRUE, name |-> <<65>>, value |-> <<49>>],
      [text |-> <<97, 58, 32, 50>>, good |-> TRUE, name |-> <<97>>, value |-> <<50>>],
      [text |-> <<32, 67, 32, 58, 32, 52, 32>>, good |-> TRUE, name |-> <<67>>, value |-> <<52>>],
      [text |-> <<68, 58, 9, 120, 58, 121>>, good |-> TRUE, name |-> <<68>>, value |-> <<120, 58, 121>>],
      [text |-> <<65>>, good |-> FALSE, name |-> <<>>, value |-> <<>>],
      [text |-> <<58, 32, 49>>, good |-> FALSE, name |-> <<>>, value |-> <<>>],
      [text |-> <<65, 58>>, good |-> FALSE, name |-> <<>>, value |-> <<>>],
      [text |-> <<66, 58, 32, 9>>, good |-> FALSE, name |-> <<>>, value |-> <<>>]>>

\* a block has at most MaxLines lines
MaxLines == 3

\* the k-th block, counting from 0: the empty block, the blocks of one line,
\* of two lines, ...
RECURSIVE BlockAt(_)
BlockAt(k) ==
    IF k = 0 THEN <<>>
    ELSE Append(BlockAt((k - 1) \div Len(HeaderLineTable)),
                HeaderLineTable[((k - 1) % Len(HeaderLineTable)) + 1])

\* the number of blocks of at most n lines
RECURSIVE BlockCount(_)
BlockCount(n) == IF n = 0 THEN 1 ELSE 1 + Len(HeaderLineTable) * BlockCount(n - 1)

\* the texts of the lines of a block
BlockLines(block) == [i \in 1..Len(block) |-> block[i].text]

\* 'GET /b HTTP/1.1': the request line the block is sent after
BlockRequestLine == <<71, 69, 84, 32, 47, 98, 32, 72, 84, 84, 80, 47, 49, 46, 49>>

\* the message 'GET /b HTTP/1.1' CRLF block CRLF, as one connection
BlockMessage(block) ==
    [type |-> "REQUEST",
     line |-> BlockRequestLine,
     startLine |-> [method |-> <<71, 69, 84>>, target |-> <<47, 98>>,
                    version |-> <<72, 84, 84, 80, 47, 49, 46, 49>>],
     block |-> block,
     raw |-> BlockRequestLine \o CRLF \o LinesWire(BlockLines(block)) \o CRLF]

BlockConns == [k \in 1..BlockCount(MaxLines) |-> <<BlockMessage(BlockAt(k - 1))>>]

(***************************************************************************)
(* Connections for the chunk framing and for errors after whole messages:  *)
(* chunked responses of every chunk count up to one more than the cap,     *)
(* chunked responses whose chunk data is not followed by CR LF, and each   *)
(* of them after a well-formed message.                                    *)
(***************************************************************************)
\* 'HTTP/1.1 200 OK\r\nTransfer-Encoding: chunked\r\n\r\n', k times '1\r\nc\r\n',
\* '0\r\n\r\n'
ChunkedMsg(k) ==
    [RespChunked EXCEPT !.chunks = [i \in 1..k |-> [size |-> <<49>>, data |-> <<99>>]]]

\* '...chunked\r\n\r\n2\r\nab0\r\n\r\n': the last-chunk line follows the data at once
NoCrlfEnd ==
    [type |-> "RESPONSE", valid |-> FALSE, chunkData |-> <<97, 98>>,
     raw |-> HeadWire(RespChunked) \o <<50>> \o CRLF \o <<97, 98>>
             \o <<48>> \o CRLF \o CRLF]

\* '...chunked\r\n\r\n1\r\na1\r\nb\r\n0\r\n\r\n': the next chunk follows the data at once
NoCrlfMid ==
    [type |-> "RESPONSE", valid |-> FALSE, chunkData |-> <<97>>,
     raw |-> HeadWire(RespChunked) \o <<49>> \o CRLF \o <<97>>
             \o <<49>> \o CRLF \o <<98>> \o CRLF \o <<48>> \o CRLF \o CRLF]

\* '...chunked\r\n\r\n2\r\nabXY0\r\n\r\n': two other bytes follow the data
NoCrlfJunk ==
    [type |-> "RESPONSE", valid |-> FALSE, chunkData |-> <<97, 98>>,
     raw |-> HeadWire(RespChunked) \o <<50>> \o CRLF \o <<97, 98>> \o <<88, 89>>
             \o <<48>> \o CRLF \o CRLF]

NoCrlfMessages == <<NoCrlfEnd, NoCrlfMid, NoCrlfJunk>>

\* the bytes of a message of these connections
CaseWire(m) == IF "raw" \in DOMAIN m THEN m.raw ELSE Wire(m)

RECURSIVE CaseWireAll(_)
CaseWireAll(ms) ==
    IF ms = <<>> THEN <<>> ELSE CaseWire(ms[1]) \o CaseWireAll(Tail(ms))

\* 'POST /p HTTP/1.1\r\nConnection: Close\r\nContent-Length: 3\r\n\r\nabc' (58 bytes)
PostClose == [ReqPost EXCEPT !.hdrs = ReqClose.hdrs \o @, !.keepAlive = FALSE]

CaseFirst ==
    <<ReqHost, ReqPost, ReqGet, RespHex, PostClose>>
    \o [k \in 1..(maxChunks + 1) |-> ChunkedMsg(k - 1)]
CaseLast ==
    CaseFirst \o <<ChunkedMsg(maxChunks + 1), BadVersion, BadMethod>> \o NoCrlfMessages

CaseConns ==
    [i \in 1..Len(CaseLast) |-> <<CaseLast[i]>>]
    \o [i \in 1..(Len(CaseFirst) * Len(CaseLast)) |->
            <<CaseFirst[((i - 1) \div Len(CaseLast)) + 1],
              CaseLast[((i - 1) % Len(CaseLast)) + 1]>>]
    \o <<<<ReqHost, ReqPost, BadVersion>>, <<ReqPost, RespHex, BadMethod>>>>

(***************************************************************************)
(* Connections for the header line-length limit: one request whose header  *)
(* lines have given lengths, at, above and below maxHeaderLineLength.      *)
(***************************************************************************)
\* the header line 'A: vvv...' of n bytes, as a [name, value] pair
LineOfLength(n) == <<<<65>>, [i \in 1..(n - 3) |-> 118]>>

\* 'GET /1 HTTP/1.1\r\n', a header line of each of the lengths, '\r\n'
LinesMsg(lengths) ==
    [ReqHost EXCEPT
        !.hdrs = [i \in 1..Len(lengths) |-> LineOfLength(lengths[i])],
        !.valid = \A i \in 1..Len(lengths) : lengths[i] <= maxHeaderLineLength]

HalfLine == (maxHeaderLineLength \div 2) + 1
LimitConns ==
    <<<<LinesMsg(<<HalfLine>>)>>,
      <<LinesMsg(<<maxHeaderLineLength>>)>>,
      <<LinesMsg(<<maxHeaderLineLength + 1>>)>>,
      <<LinesMsg(<<HalfLine, HalfLine>>)>>,
      <<LinesMsg(<<maxHeaderLineLength, maxHeaderLineLength>>)>>,
      <<LinesMsg(<<HalfLine, maxHeaderLineLength + 1>>)>>>>

ConnSeq == MainConns \o HeaderConns \o BuiltConns \o BlockConns \o CaseConns \o LimitConns
MainIds == 1..Len(MainConns)
HeaderIds == (Len(MainConns) + 1)..(Len(MainConns) + Len(HeaderConns))
BuiltIds == (Len(MainConns) + Len(HeaderConns) + 1)
            ..(Len(MainConns) + Len(HeaderConns) + Len(BuiltConns))
BlockIds == (Len(MainConns) + Len(HeaderConns) + Len(BuiltConns) + 1)
            ..(Len(MainConns) + Len(HeaderConns) + Len(BuiltConns) + Len(BlockConns))
CaseIds == (Len(MainConns) + Len(HeaderConns) + Len(BuiltConns) + Len(BlockConns) + 1)
           ..(Len(ConnSeq) - Len(LimitConns))
LimitIds == (Len(ConnSeq) - Len(LimitConns) + 1)..Len(ConnSeq)
Streams ==
    [i \in 1..Len(ConnSeq) |->
        IF i \in BuiltIds
        THEN Build(BuilderInputs[i - Len(MainConns) - Len(HeaderConns)])
        ELSE IF i \in BlockIds THEN ConnSeq[i][1].raw
        ELSE IF i \in CaseIds THEN CaseWireAll(ConnSeq[i])
        ELSE WireAll(ConnSeq[i])]

(***************************************************************************)
(* State: one HttpParser and the connection it reads.                      *)
(***************************************************************************)
VARIABLES
    parser,      \* the fields of the HttpParser instance
    connId,      \* which of the connections the parser reads
    pos,         \* how many bytes of the connection parse() has been given
    emitted,     \* every message parse() has returned, in order
    returned,    \* what the last call of parse() returned
    calls,       \* the number of parse() calls made, counted up to CallCap
    bytewise,    \* every parse() call so far was given exactly one byte
    lastOp,      \* the last operation: "new", "parse" or "reset"
    wasError,    \* getState() was ERROR when the last operation was called
    lastEmpty,   \* the last operation was parse() of a zero-length input
    hmap,        \* a HeadersMap the caller builds
    hclone,      \* what hmap.clone() returned, None before it is called
    hmodel,      \* the [name, value] pairs hmap is meant to hold, in order
    hcall,       \* the last call made on hmap or on the clone
    fcall        \* the last call of one of the exported functions, and its result

pvars == <<parser, connId, pos, emitted, returned, calls, bytewise, lastOp, wasError,
           lastEmpty, fcall>>
hvars == <<hmap, hclone, hmodel, hcall>>
vars == <<parser, connId, pos, emitted, returned, calls, bytewise, lastOp, wasError,
          lastEmpty, hmap, hclone, hmodel, hcall, fcall>>

CallCap == 3

\* after its first call the caller delivers at most MaxFragment bytes per
\* call, or all that is left
MaxFragment == 2

\* the messages sent on the connection, and its bytes
conn == ConnSeq[connId]
stream == Streams[connId]

\* no exported function has been called
NoCall == [fn |-> "none"]

\* a new HttpParser, on one of the given connections
InitOn(ids) ==
    /\ parser = NewHttpParser
    /\ connId \in ids
    /\ pos = 0
    /\ emitted = <<>>
    /\ returned = <<>>
    /\ calls = 0
    /\ bytewise = TRUE
    /\ lastOp = "new"
    /\ wasError = FALSE
    /\ lastEmpty = FALSE
    /\ hmap = NewHeadersMap
    /\ hclone = None
    /\ hmodel = <<>>
    /\ hcall = [op |-> "new", on |-> "map", name |-> <<>>, value |-> <<>>, ret |-> FALSE]
    /\ fcall = NoCall

Init == InitOn(MainIds)

\* parser.parse(data) with the next n bytes of the connection
Parse(n) ==
    LET r == parse(parser, Slice(stream, pos, pos + n))
    IN  /\ parser' = r.p
        /\ pos' = pos + n
        /\ emitted' = emitted \o r.messages
        /\ returned' = r.messages
        /\ calls' = IF calls < CallCap THEN calls + 1 ELSE calls
        /\ bytewise' = (bytewise /\ n = 1)
        /\ lastOp' = "parse"
        /\ wasError' = (parser.state = "ERROR")
        /\ lastEmpty' = (n = 0)
        /\ UNCHANGED <<connId, hmap, hclone, hmodel, hcall, fcall>>

\* parser.reset(): the caller gives the connection up and starts it anew
Reset ==
    /\ lastOp # "new"
    /\ parser' = reset(parser, TRUE)
    /\ pos' = 0
    /\ emitted' = <<>>
    /\ returned' = <<>>
    /\ calls' = 0
    /\ bytewise' = TRUE
    /\ lastOp' = "reset"
    /\ wasError' = (parser.state = "ERROR")
    /\ lastEmpty' = FALSE
    /\ UNCHANGED <<connId, hmap, hclone, hmodel, hcall, fcall>>

Next ==
    \/ \E n \in 0..(Len(stream) - pos) :
          /\ calls = 0 \/ n <= MaxFragment \/ n = Len(stream) - pos
          /\ Parse(n)
    \/ Reset

Spec == Init /\ [][Next]_vars

\* the same parser reading the connections of HeaderConns
InitHeaders == InitOn(HeaderIds)
SpecHeaders == InitHeaders /\ [][Next]_vars

\* the same parser reading what the builders return
\* the caller gives parse() all the builder returned, then empty inputs
InitBuilt == InitOn(BuiltIds)
NextBuilt ==
    \/ Parse(Len(stream) - pos)
    \/ Reset
SpecBuilt == InitBuilt /\ [][NextBuilt]_vars

\* the same parser reading the connections of CaseConns: the caller gives
\* parse() the next message of the connection, or all that is left of it
MessageEnd(k) == Len(CaseWireAll(SubSeq(conn, 1, k)))
\* the number of bytes of the message that begins at pos, if one does
NextMessageBytes ==
    {MessageEnd(k) - pos : k \in {j \in 1..Len(conn) : pos = MessageEnd(j - 1)}}
ParseMessage == \E n \in NextMessageBytes \cup {Len(stream) - pos} : Parse(n)
InitCases == InitOn(CaseIds)
NextCases ==
    \/ ParseMessage
    \/ Reset
SpecCases == InitCases /\ [][NextCases]_vars

\* the same parser reading the connections of LimitConns: the first call
\* gives parse() the start line with its CRLF at least, the calls after it
\* at most MaxFragment bytes each, or all that is left
InitLimits == InitOn(LimitIds)
NextLimits ==
    \/ \E n \in 0..(Len(stream) - pos) :
          /\ pos = 0 => n >= Len(conn[1].line) + 2
          /\ calls = 0 \/ n <= MaxFragment \/ n = Len(stream) - pos
          /\ Parse(n)
    \/ Reset
SpecLimits == InitLimits /\ [][NextLimits]_vars

(***************************************************************************)
(* A HeadersMap used by one caller, and its clone.                         *)
(***************************************************************************)
\* the names and values the caller uses: "A", "a", "B"; "1", " 1", ""
HeaderNames == {<<65>>, <<97>>, <<66>>}
HeaderValues == {<<49>>, <<32, 49>>, <<>>}

\* what Date.now() and Math.random() give an append is one of MaxStamp stamps
MaxStamp == 2
Stamps == 1..MaxStamp

\* the caller stops adding once the index lists hold MaxEntries keys
MaxEntries == 2

RECURSIVE IndexedKeys(_)
IndexedKeys(lowerCaseMap) ==
    IF lowerCaseMap = <<>> THEN 0
    ELSE Len(lowerCaseMap[1].keys) + IndexedKeys(Tail(lowerCaseMap))

CanAdd(h) == IndexedKeys(h.lowerCaseMap) < MaxEntries

\* the pairs of a list that do not have the lowercase name
ModelWithout(pairs, lowerName) ==
    SelectSeq(pairs, LAMBDA e : toLowerCase(e[1]) # lowerName)

HCall(op, on, name, value, ret) ==
    [op |-> op, on |-> on, name |-> name, value |-> value, ret |-> ret]

\* hmap.append(name, value)
HAppend(name, value, stamp) ==
    /\ CanAdd(hmap)
    /\ hmap' = HeadersMap_appendKey(hmap, name, value, stamp)
    /\ hmodel' = Append(hmodel, <<name, value>>)
    /\ hcall' = HCall("append", "map", name, value, FALSE)
    /\ UNCHANGED <<pvars, hclone>>

\* hmap.set(name, value)
HSet(name, value, stamp) ==
    /\ CanAdd(HeadersMap_without(hmap, toLowerCase(name)))
    /\ hmap' = HeadersMap_set(hmap, name, value, stamp)
    /\ hmodel' = Append(ModelWithout(hmodel, toLowerCase(name)), <<name, value>>)
    /\ hcall' = HCall("set", "map", name, value, FALSE)
    /\ UNCHANGED <<pvars, hclone>>

\* hmap.delete(name)
HDelete(name) ==
    /\ hmap' = HeadersMap_delete(hmap, name).h
    /\ hmodel' = ModelWithout(hmodel, toLowerCase(name))
    /\ hcall' = HCall("delete", "map", name, <<>>, HeadersMap_delete(hmap, name).ret)
    /\ UNCHANGED <<pvars, hclone>>

\* hmap.clear()
HClear ==
    /\ hmap' = HeadersMap_clear(hmap)
    /\ hmodel' = <<>>
    /\ hcall' = HCall("clear", "map", <<>>, <<>>, FALSE)
    /\ UNCHANGED <<pvars, hclone>>

InitMap == InitOn({1})

NextMap ==
    \/ \E name \in HeaderNames, value \in HeaderValues, stamp \in Stamps :
          HAppend(name, value, stamp)
    \/ \E name \in HeaderNames, value \in HeaderValues, stamp \in Stamps :
          HSet(name, value, stamp)
    \/ \E name \in HeaderNames : HDelete(name)
    \/ HClear

SpecMap == InitMap /\ [][NextMap]_vars

\* the names and values of the caller that clones: "A", "a"; "1", ""
CloneNames == {<<65>>, <<97>>}
CloneValues == {<<49>>, <<>>}

\* hclone = hmap.clone(), the appends of the constructor given stamps
HClone(stamps) ==
    /\ hclone = None
    /\ hclone' = Some(HeadersMap_clone(hmap, stamps))
    /\ hcall' = HCall("clone", "map", <<>>, <<>>, FALSE)
    /\ UNCHANGED <<pvars, hmap, hmodel>>

\* hclone.append(name, value)
CAppend(name, value, stamp) ==
    /\ hclone # None
    /\ CanAdd(hclone[1])
    /\ hclone' = Some(HeadersMap_appendKey(hclone[1], name, value, stamp))
    /\ hcall' = HCall("append", "clone", name, value, FALSE)
    /\ UNCHANGED <<pvars, hmap, hmodel>>

\* hclone.set(name, value)
CSet(name, value, stamp) ==
    /\ hclone # None
    /\ CanAdd(HeadersMap_without(hclone[1], toLowerCase(name)))
    /\ hclone' = Some(HeadersMap_set(hclone[1], name, value, stamp))
    /\ hcall' = HCall("set", "clone", name, value, FALSE)
    /\ UNCHANGED <<pvars, hmap, hmodel>>

\* hclone.delete(name)
CDelete(name) ==
    /\ hclone # None
    /\ hclone' = Some(HeadersMap_delete(hclone[1], name).h)
    /\ hcall' = HCall("delete", "clone", name, <<>>, HeadersMap_delete(hclone[1], name).ret)
    /\ UNCHANGED <<pvars, hmap, hmodel>>

\* hclone.clear()
CClear ==
    /\ hclone # None
    /\ hclone' = Some(HeadersMap_clear(hclone[1]))
    /\ hcall' = HCall("clear", "clone", <<>>, <<>>, FALSE)
    /\ UNCHANGED <<pvars, hmap, hmodel>>

InitClone == InitOn({1})

NextClone ==
    \/ \E name \in CloneNames, value \in CloneValues, stamp \in Stamps :
          HAppend(name, value, stamp)
    \/ \E name \in CloneNames, value \in CloneValues, stamp \in Stamps :
          HSet(name, value, stamp)
    \/ \E name \in CloneNames : HDelete(name)
    \/ HClear
    \/ \E stamps \in [1..Len(hmap.headers) -> Stamps] : HClone(stamps)
    \/ \E name \in CloneNames, value \in CloneValues, stamp \in Stamps :
          CAppend(name, value, stamp)
    \/ \E name \in CloneNames, value \in CloneValues, stamp \in Stamps :
          CSet(name, value, stamp)
    \/ \E name \in CloneNames : CDelete(name)
    \/ CClear

SpecClone == InitClone /\ [][NextClone]_vars

(***************************************************************************)
(* The exported functions, called on their own.                            *)
(***************************************************************************)
\* the start lines the caller tokenizes:
\* 'GET / HTTP/1.1', 'G@T / HTTP/1.1', 'GET x HTTP/1.1', 'GET / HTTP/2.0',
\* 'GET /', 'GET', 'HTTP/1.1 200 OK', 'HTTP/1.1 200', 'HTTP/1.1 99 X',
\* 'HTTP/3 200 OK', 'HTTP/1.0 404 Not Found'
StartLines ==
    {<<71, 69, 84, 32, 47, 32, 72, 84, 84, 80, 47, 49, 46, 49>>,
     <<71, 64, 84, 32, 47, 32, 72, 84, 84, 80, 47, 49, 46, 49>>,
     <<71, 69, 84, 32, 120, 32, 72, 84, 84, 80, 47, 49, 46, 49>>,
     <<71, 69, 84, 32, 47, 32, 72, 84, 84, 80, 47, 50, 46, 48>>,
     <<71, 69, 84, 32, 47>>,
     <<71, 69, 84>>,
     <<72, 84, 84, 80, 47, 49, 46, 49, 32, 50, 48, 48, 32, 79, 75>>,
     <<72, 84, 84, 80, 47, 49, 46, 49, 32, 50, 48, 48>>,
     <<72, 84, 84, 80, 47, 49, 46, 49, 32, 57, 57, 32, 88>>,
     <<72, 84, 84, 80, 47, 51, 32, 50, 48, 48, 32, 79, 75>>,
     <<72, 84, 84, 80, 47, 49, 46, 48, 32, 52, 48, 52, 32, 78, 111, 116, 32, 70, 111, 117, 110, 100>>}

\* the line is preceded by MaxStart bytes 'zz...' and followed by CRLF 'A'
MaxStart == 2
LineData(line) == [i \in 1..MaxStart |-> 122] \o line \o <<CR, LF, 65>>

\* the caller's one call: parseRequestLine(data, start, end)
CallParseRequestLine(data, start, end) ==
    /\ fcall = NoCall
    /\ fcall' = [fn |-> "parseRequestLine", data |-> data, start |-> start, end |-> end,
                 line |-> parseRequestLine(data, start, end).requestLine,
                 result |-> parseRequestLine(data, start, end)]
    /\ UNCHANGED <<parser, connId, pos, emitted, returned, calls, bytewise, lastOp,
                   wasError, lastEmpty, hvars>>

\* the caller's one call: parseStatusLine(data, start, end)
CallParseStatusLine(data, start, end) ==
    /\ fcall = NoCall
    /\ fcall' = [fn |-> "parseStatusLine", data |-> data, start |-> start, end |-> end,
                 line |-> parseStatusLine(data, start, end).statusLine,
                 result |-> parseStatusLine(data, start, end)]
    /\ UNCHANGED <<parser, connId, pos, emitted, returned, calls, bytewise, lastOp,
                   wasError, lastEmpty, hvars>>

InitCalls == InitOn({1})

NextLines ==
    \/ \E line \in StartLines, start \in {0, MaxStart} :
          \E end \in start..Len(LineData(line)) :
              CallParseRequestLine(LineData(line), start, end)
    \/ \E line \in StartLines, start \in {0, MaxStart} :
          \E end \in start..Len(LineData(line)) :
              CallParseStatusLine(LineData(line), start, end)

SpecLines == InitCalls /\ [][NextLines]_vars

\* status lines put together from a version, a status-code field and what
\* follows it: nothing, or SP and a reason phrase
StatusVersions ==
    {HTTP_1_1, HTTP_1_0,
     <<72, 84, 84, 80, 47, 50, 46, 48>>,              \* HTTP/2.0
     <<104, 116, 116, 112, 47, 49, 46, 49>>,          \* http/1.1
     <<72, 84, 84, 80, 47, 49, 46, 49, 48>>}          \* HTTP/1.10
StatusCodes ==
    {<<50, 48, 48>>, <<49, 48, 48>>, <<57, 57, 57>>,  \* 200 100 999
     <<57, 57>>, <<49, 48, 48, 48>>, <<48, 50, 48, 48>>,   \* 99 1000 0200
     <<50, 48, 48, 120>>, <<43, 50, 48, 48>>,         \* 200x +200
     <<45, 50, 48, 48>>, <<50, 101, 50>>,             \* -200 2e2
     <<50, 48, 48, 46, 53>>, <<120, 50, 48, 48>>,     \* 200.5 x200
     <<>>}
StatusReasons ==
    {None, Some(<<>>), Some(<<79, 75>>),              \* (none) '' 'OK'
     Some(<<78, 111, 116, 32, 70, 111, 117, 110, 100, 32, 72, 101, 114, 101>>),
                                                      \* 'Not Found Here'
     Some(<<32, 79, 75, 32>>)}                        \* ' OK '
StatusData(version, code, reason) ==
    version \o <<SPACE>> \o code
    \o (IF reason = None THEN <<>> ELSE <<SPACE>> \o reason[1])
    \o <<CR, LF, 65>>

NextStatus ==
    \E version \in StatusVersions, code \in StatusCodes, reason \in StatusReasons :
        CallParseStatusLine(StatusData(version, code, reason), 0,
                            Len(StatusData(version, code, reason)))

SpecStatus == InitCalls /\ [][NextStatus]_vars

\* the values given to the number parsers: every string of at most
\* MaxDigits characters out of 0 1 a F x e + - . and SP
NumberChars == {48, 49, 97, 70, 120, 101, 43, 45, 46, 32}
MaxDigits == 3
NumberStrings == UNION {[1..n -> NumberChars] : n \in 0..MaxDigits}

\* the caps parseChunkSize is given: options.maxBodySize, and one above
\* every value of two hexadecimal digits
ChunkCaps == {maxBodySize, 255}

\* the caller's one call: parseContentLength(value)
CallParseContentLength(value) ==
    /\ fcall = NoCall
    /\ fcall' = [fn |-> "parseContentLength", value |-> value,
                 result |-> parseContentLength(value)]
    /\ UNCHANGED <<parser, connId, pos, emitted, returned, calls, bytewise, lastOp,
                   wasError, lastEmpty, hvars>>

\* the caller's one call: parseChunkSize(hex, maxSize)
CallParseChunkSize(hex, maxSize) ==
    /\ fcall = NoCall
    /\ fcall' = [fn |-> "parseChunkSize", value |-> hex, cap |-> maxSize,
                 result |-> parseChunkSize(hex, maxSize)]
    /\ UNCHANGED <<parser, connId, pos, emitted, returned, calls, bytewise, lastOp,
                   wasError, lastEmpty, hvars>>

NextNumbers ==
    \/ \E value \in NumberStrings : CallParseContentLength(value)
    \/ \E hex \in NumberStrings, maxSize \in ChunkCaps : CallParseChunkSize(hex, maxSize)

SpecNumbers == InitCalls /\ [][NextNumbers]_vars

\* the values the caller gives parseHeaders for maxHeaders: 0..MaxCap
MaxCap == 2

\* the caller's one call: parseHeaderLine(line) on the i-th line of the block
CallParseHeaderLine(i) ==
    /\ fcall = NoCall
    /\ lastOp = "new"
    /\ fcall' = [fn |-> "parseHeaderLine", line |-> conn[1].block[i].text,
                 result |-> parseHeaderLine(conn[1].block[i].text)]
    /\ UNCHANGED <<parser, connId, pos, emitted, returned, calls, bytewise, lastOp,
                   wasError, lastEmpty, hvars>>

\* the caller's one call: parseHeaders(headerText, maxHeaders) on the block
CallParseHeaders(cap) ==
    /\ fcall = NoCall
    /\ lastOp = "new"
    /\ fcall' = [fn |-> "parseHeaders", maxHeaders |-> cap,
                 result |-> parseHeaders(decodeUtf8(LinesWire(BlockLines(conn[1].block))),
                                         cap, DefaultMaxLineLength)]
    /\ UNCHANGED <<parser, connId, pos, emitted, returned, calls, bytewise, lastOp,
                   wasError, lastEmpty, hvars>>

\* the caller calls one of the two functions on the block, or sends the
\* block to a parser in one parse() call
InitBlocks == InitOn(BlockIds)

NextBlocks ==
    \/ \E i \in 1..Len(conn[1].block) : CallParseHeaderLine(i)
    \/ \E cap \in 0..MaxCap : CallParseHeaders(cap)
    \/ fcall = NoCall /\ Parse(Len(stream) - pos)
    \/ fcall = NoCall /\ Reset

SpecBlocks == InitBlocks /\ [][NextBlocks]_vars

(***************************************************************************)
(* What the claims speak of.                                               *)
(***************************************************************************)
\* what a caller sees of an emitted message
Observe(msg) ==
    [type |-> msg.type, startLine |-> msg.startLine,
     entries |-> HeadersMap_entries(msg.headers),
     body |-> msg.body, keepAlive |-> msg.keepAlive]

\* what a message on the wire says
Expected(m) ==
    [type |-> m.type, startLine |-> m.startLine, entries |-> m.hdrs,
     body |-> BodyOf(m), keepAlive |-> m.keepAlive]

\* a well-formed message that stays within the configured limits
WithinLimits(m) ==
    /\ m.valid
    /\ Len(BodyOf(m)) <= options.maxBodySize
    /\ Len(m.chunks) <= options.maxChunks
    /\ Len(m.hdrs) <= options.maxHeaders

\* the messages a fresh parser returns for one call with the given bytes
ParseWhole(bytes) == parse(NewHttpParser, bytes).messages

RECURSIVE ParseEach(_)
ParseEach(ms) ==
    IF ms = <<>> THEN <<>> ELSE ParseWhole(Wire(ms[1])) \o ParseEach(Tail(ms))

IsPrefix(s, t) == Len(s) <= Len(t) /\ s = SubSeq(t, 1, Len(s))

BodySoFar(p) == IF p.body = None THEN <<>> ELSE p.body[1]

\* C1: fragmentation independence.  Once a connection's bytes have all been
\* delivered, in whatever fragments, the messages returned so far are those
\* a fresh parser returns when given the same bytes in one call.
C1_FragmentationIndependence ==
    pos = Len(stream) => emitted = ParseWhole(stream)

\* C2: pipelining order.  When the delivered bytes are k well-formed
\* messages one after the other, exactly k messages are emitted and the i-th
\* is the parse of the i-th message.
C2_PipeliningOrder ==
    (pos = Len(stream) /\ \A i \in 1..Len(conn) : WithinLimits(conn[i]))
        => emitted = ParseEach(conn)

\* the length a message's Content-Length header declares, 0 when the
\* message is chunked or declares none
DeclaredLength(msg) ==
    LET te == HeadersMap_get(msg.headers,
                <<116, 114, 97, 110, 115, 102, 101, 114, 45, 101, 110, 99, 111, 100, 105, 110, 103>>)
        cl == HeadersMap_get(msg.headers,
                <<99, 111, 110, 116, 101, 110, 116, 45, 108, 101, 110, 103, 116, 104>>)
        n  == IF cl = None THEN None ELSE parseContentLength(cl[1])
    IN  IF te # None \/ n = None THEN 0 ELSE n[1]

\* C3: Content-Length framing.  A message emitted with a declared length
\* n > 0 has a body of exactly n bytes, namely the n bytes sent after its
\* header block, and the parser is not left waiting for the body once those
\* n bytes have been delivered.
C3_ContentLengthBody ==
    /\ \A i \in 1..Len(emitted) :
          DeclaredLength(emitted[i]) > 0
              => Len(emitted[i].body) = DeclaredLength(emitted[i])
    /\ (conn[1].framing = "length" /\ WithinLimits(conn[1]) /\ Len(emitted) >= 1
        /\ DeclaredLength(emitted[1]) > 0)
          => emitted[1].body = conn[1].body
    /\ (conn[1].framing = "length" /\ emitted = <<>>
        /\ parser.state = "BODY_CONTENT_LENGTH")
          => pos < Len(Wire(conn[1]))

\* C4: a chunked message delivered one byte per call gives the message its
\* delivery in one call gives, and the chunk data accepted before a chunk
\* is complete is counted to that chunk and read once: the body gathered so
\* far is always a prefix of the body sent.
C4_ChunkedByteByByte ==
    (conn[1].framing = "chunked" /\ WithinLimits(conn[1])) =>
        /\ (bytewise /\ pos = Len(Wire(conn[1])))
              => emitted = ParseWhole(Wire(conn[1]))
        /\ (emitted = <<>> /\ parser.state # "ERROR")
              => IsPrefix(BodySoFar(parser), BodyOf(conn[1]))

\* the first call delivered at least the whole first message
FirstDeliveredWhole == calls = 1 /\ pos >= Len(Wire(conn[1]))

\* C5: the body of a well-formed chunked message delivered in one call is
\* the data of its chunks, in order; the size lines, their extensions and
\* the CRLF delimiters add nothing to it.  A call with exactly the bytes of
\* the message emits it.
C5_ChunkedBody ==
    (conn[1].framing = "chunked" /\ conn[1].valid
     /\ Len(conn[1].chunks) <= options.maxChunks
     /\ (\A i \in 1..Len(conn[1].chunks) :
            Len(conn[1].chunks[i].data) <= options.maxBodySize)
     /\ FirstDeliveredWhole)
        => /\ Len(emitted) >= 1 => emitted[1].body = ChunksData(conn[1].chunks)
           /\ pos = Len(Wire(conn[1])) => Len(emitted) = 1

\* a chunked message with a chunk extension and more than one chunk has
\* been delivered whole and emitted
C5_Witness ==
    /\ conn = <<RespChunked>>
    /\ FirstDeliveredWhole
    /\ Len(emitted) = 1
    /\ emitted[1].body = <<97, 98, 99>>

\* C6: ERROR is terminal.  From ERROR a parse call returns no message and
\* leaves the state ERROR; reset() leaves ERROR, to IDLE.
C6_ErrorTerminal ==
    [][parser.state = "ERROR" =>
         IF lastOp' = "reset"
         THEN parser'.state = "IDLE"
         ELSE parser'.state = "ERROR" /\ returned' = <<>>]_vars

\* parse() was called with a parser in ERROR and given bytes
C6_Witness ==
    /\ lastOp = "parse"
    /\ wasError
    /\ parser.state = "ERROR"
    /\ returned = <<>>
    /\ pos = Len(stream)

\* C7: a message whose body exceeds maxBodySize puts the parser in ERROR
\* and is not emitted.
C7_BodyTooLarge ==
    (conn[1].valid /\ Len(BodyOf(conn[1])) > options.maxBodySize
     /\ pos >= Len(Wire(conn[1])))
        => parser.state = "ERROR" /\ emitted = <<>>

\* C8: after one complete message and N bytes of the next, exactly one
\* message has been emitted and N bytes are buffered.
C8_BufferedBytes ==
    (Len(conn) = 2 /\ WithinLimits(conn[1])
     /\ pos >= Len(Wire(conn[1])) /\ pos < Len(stream))
        => /\ Len(emitted) = 1
           /\ getBufferedBytes(parser) = pos - Len(Wire(conn[1]))

\* C9: a proper prefix of a well-formed message gives no message and no
\* ERROR, and the rest of the bytes then gives the message.
C9_PartialNotFatal ==
    (Len(conn) = 1 /\ WithinLimits(conn[1])) =>
        /\ (calls = 1 /\ pos < Len(stream))
              => emitted = <<>> /\ parser.state # "ERROR"
        /\ (calls = 2 /\ pos = Len(stream))
              => /\ Len(emitted) = 1
                 /\ Observe(emitted[1]) = Expected(conn[1])

\* C10: once the CRLF-terminated request line of a request with an invalid
\* method, target or version has been delivered, nothing has been emitted
\* and the parser is in ERROR.
C10_InvalidRequestLine ==
    (conn[1].type = "REQUEST" /\ ~conn[1].valid
     /\ pos >= Len(conn[1].line) + 2)
        => parser.state = "ERROR" /\ emitted = <<>>

\* C11: parse() of a zero-length input returns no message and leaves
\* getState() and getBufferedBytes() as they were, in whatever state the
\* parser is; in particular it does not move the parser into ERROR.
C11_EmptyInput ==
    [][lastEmpty' =>
         /\ returned' = <<>>
         /\ parser'.state = parser.state
         /\ getBufferedBytes(parser') = getBufferedBytes(parser)]_vars

\* a zero-length input was given to a parser that has emitted a message
\* and holds unconsumed bytes of the next one
C11_Witness ==
    /\ lastEmpty
    /\ Len(emitted) = 1
    /\ parser.state \notin {"IDLE", "ERROR"}
    /\ getBufferedBytes(parser) > 0



\* the values of the entries named name (lowercase), in order
RECURSIVE ValuesNamed(_, _)
ValuesNamed(entries, name) ==
    IF entries = <<>> THEN <<>>
    ELSE (IF toLowerCase(entries[1][1]) = name THEN <<entries[1][2]>> ELSE <<>>)
         \o ValuesNamed(Tail(entries), name)

\* "connection", "close"
ConnectionName == <<99, 111, 110, 110, 101, 99, 116, 105, 111, 110>>
CloseToken == <<99, 108, 111, 115, 101>>

\* the keep-alive rule on what the caller sees of a message: close asks for
\* no keep-alive, and so does a response of HTTP/1.0
KeepAliveRule(o) ==
    /\ toLowerCase(join(ValuesNamed(o.entries, ConnectionName))) # CloseToken
    /\ ~(o.type = "RESPONSE" /\ o.startLine.version = HTTP_1_0)

TransferEncodingName ==
    <<116, 114, 97, 110, 115, 102, 101, 114, 45, 101, 110, 99, 111, 100, 105, 110, 103>>
ContentLengthName == <<99, 111, 110, 116, 101, 110, 116, 45, 108, 101, 110, 103, 116, 104>>
ChunkedToken == <<99, 104, 117, 110, 107, 101, 100>>

\* the number a string of decimal digits writes, -1 for any other string
DecimalValue(s) ==
    IF s # <<>> /\ \A i \in 1..Len(s) : s[i] >= 48 /\ s[i] <= 57
    THEN DigitsValue(s, 10) ELSE -1

\* the framing the header fields of a message on the wire ask for
FramingRule(hdrs) ==
    IF Includes(toLowerCase(join(ValuesNamed(hdrs, TransferEncodingName))), ChunkedToken)
    THEN "chunked"
    ELSE IF DecimalValue(join(ValuesNamed(hdrs, ContentLengthName))) > 0
    THEN "length"
    ELSE "none"

\* what follows the header block of the message on the wire
Payload(m) == Slice(Wire(m), Len(HeadWire(m)), Len(Wire(m)))

\* the body the framing rule gives the message
FramedBody(m) ==
    IF FramingRule(m.hdrs) = "chunked" THEN ChunksData(m.chunks)
    ELSE IF FramingRule(m.hdrs) = "length"
    THEN Slice(Payload(m), 0, DecimalValue(join(ValuesNamed(m.hdrs, ContentLengthName))))
    ELSE <<>>

BuiltDelivered == calls = 1 /\ pos = Len(stream)

AddedLength(m) ==
    IF m.body # <<>>
    THEN <<<<<<67, 111, 110, 116, 101, 110, 116, 45, 76, 101, 110, 103, 116, 104>>, ToDecimal(Len(m.body))>>>>
    ELSE <<>>

\* the header record given to the builder names Content-Length itself
OwnLength(m) == ValuesNamed(m.hdrs, ContentLengthName) # <<>>

ListsHolding(h, uniqueKey) ==
    {j \in 1..Len(h.lowerCaseMap) :
        \E k \in 1..Len(h.lowerCaseMap[j].keys) : h.lowerCaseMap[j].keys[k] = uniqueKey}

\* C15: after any sequence of append, set, delete and clear every stored
\* entry is referenced by exactly one index list, the one under its lowercased
\* name; every index reference points to a stored entry; iteration yields the
\* entries in the order they were appended; size is the number of distinct
\* lowercased names; and totalEntries >= size.
C15_StructuralInvariant ==
    /\ \A i \in 1..Len(hmap.headers) :
          ListsHolding(hmap, hmap.headers[i].key)
            = {MapIndex(hmap.lowerCaseMap, toLowerCase(hmap.headers[i].name))}
    /\ \A j \in 1..Len(hmap.lowerCaseMap) :
          \A k \in 1..Len(hmap.lowerCaseMap[j].keys) :
              MapIndex(hmap.headers, hmap.lowerCaseMap[j].keys[k]) # -1
    /\ HeadersMap_entries(hmap) = hmodel
    /\ HeadersMap_size(hmap)
          = Cardinality({toLowerCase(hmodel[i][1]) : i \in 1..Len(hmodel)})
    /\ HeadersMap_totalEntries(hmap) >= HeadersMap_size(hmap)


\* no unique key stands twice in the index lists
KeysDistinct(h) ==
    \A i, j \in 1..Len(h.lowerCaseMap) :
        \A k \in 1..Len(h.lowerCaseMap[i].keys), l \in 1..Len(h.lowerCaseMap[j].keys) :
            h.lowerCaseMap[i].keys[k] = h.lowerCaseMap[j].keys[l] => (i = j /\ k = l)

\* C15 holds as long as no two appends of one name were given the same stamp
C15_WhenKeysDistinct == KeysDistinct(hmap) => C15_StructuralInvariant


\* the names that differ from name in letter case only
Spellings(name) == {n \in HeaderNames : toLowerCase(n) = toLowerCase(name)}

\* C16: for a name the container holds, get(name) is getAll(name) joined
\* with ', ', the values being those given under the name in the order they
\* were given; get, getAll
\* and has give the same for every spelling of the name; for a name it does
\* not hold, get gives undefined and getAll the empty list.
C16_GetJoinsGetAll ==
    \A name \in HeaderNames :
        /\ HeadersMap_has(hmap, name)
              => /\ HeadersMap_get(hmap, name) = Some(join(HeadersMap_getAll(hmap, name)))
                 /\ Len(HeadersMap_getAll(hmap, name)) >= 1
                 /\ HeadersMap_getAll(hmap, name)
                       = ValuesNamed(hmodel, toLowerCase(name))
        /\ ~HeadersMap_has(hmap, name)
              => /\ HeadersMap_get(hmap, name) = None
                 /\ HeadersMap_getAll(hmap, name) = <<>>
        /\ \A other \in Spellings(name) :
              /\ HeadersMap_get(hmap, other) = HeadersMap_get(hmap, name)
              /\ HeadersMap_getAll(hmap, other) = HeadersMap_getAll(hmap, name)
              /\ HeadersMap_has(hmap, other) = HeadersMap_has(hmap, name)

\* C16 holds as long as no two appends of one name were given the same stamp
C16_WhenKeysDistinct == KeysDistinct(hmap) => C16_GetJoinsGetAll


\* how many elements of names() have the lowercase form of name
MatchingNames(h, name) ==
    Cardinality({j \in 1..Len(HeadersMap_names(h)) :
                    toLowerCase(HeadersMap_names(h)[j]) = toLowerCase(name)})

\* the names of the entries, each at its first occurrence only
FirstOccurrences(h) ==
    SelectSeq([i \in 1..Len(h.headers) |-> <<i, h.headers[i].name>>],
              LAMBDA e : \A j \in 1..(e[1] - 1) : h.headers[j].name # e[2])

\* the spellings of the entries that have the lowercase form of name
SpellingsHeld(h, name) ==
    {h.headers[i].name : i \in {j \in 1..Len(h.headers) :
                                  toLowerCase(h.headers[j].name) = toLowerCase(name)}}

OtherKeysKept(h, after, name) ==
    \A n \in HeaderNames :
        toLowerCase(n) # toLowerCase(name)
            => HeadersMap_getAll(after, n) = HeadersMap_getAll(h, n)

\* what C18 says of one call on h that left the container after
FrameEffect(h, after, call) ==
    /\ call.op = "set"
          => /\ HeadersMap_getAll(after, call.name) = <<call.value>>
             /\ OtherKeysKept(h, after, call.name)
    /\ call.op = "append"
          => /\ HeadersMap_getAll(after, call.name)
                   = Append(HeadersMap_getAll(h, call.name), call.value)
             /\ HeadersMap_entries(after)
                   = Append(HeadersMap_entries(h), <<call.name, call.value>>)
    /\ call.op = "delete"
          => /\ HeadersMap_getAll(after, call.name) = <<>>
             /\ ~HeadersMap_has(after, call.name)
             /\ OtherKeysKept(h, after, call.name)
             /\ call.ret = (HeadersMap_getAll(h, call.name) # <<>>)

\* C18: set(name, v) leaves getAll(name) = [v] and changes no entry under
\* another key; append(name, v) adds v as the last value of getAll(name) and
\* changes no existing entry; delete(name) removes every entry under the key,
\* changes no other key and returns true exactly when an entry existed.
C18_FrameEffects ==
    [][hcall'.on = "map" => FrameEffect(hmap, hmap', hcall')]_vars

\* C18 holds for every call that leaves no key twice in the index lists
C18_WhenKeysDistinct ==
    [][(hcall'.on = "map" /\ KeysDistinct(hmap')) => FrameEffect(hmap, hmap', hcall')]_vars



\* parseHeaders(text) of what toBytes() returned, its appends given stamps
Reparsed(h, stamps) ==
    parseHeadersStamped(decodeUtf8(HeadersMap_toBytes(h)),
                        DefaultMaxHeaders, DefaultMaxLineLength, stamps)

\* the stamps the appends of one pass over the entries of h may be given
StampsFor(h) == [1..Len(h.headers) -> Stamps]

\* C19: toBytes() writes every entry as 'Name: Value CRLF' in insertion
\* order and then an empty line, and parseHeaders of that text returns a
\* container, not null, that the original equals.
C19_SerialisationRoundTrip ==
    /\ HeadersMap_toBytes(hmap) = HeaderLinesWire(HeadersMap_entries(hmap)) \o CRLF
    /\ \A stamps \in StampsFor(hmap) :
          /\ Reparsed(hmap, stamps) # None
          /\ HeadersMap_equals(hmap, Reparsed(hmap, stamps)[1])

\* every value of the container is what parseHeaderLine makes of it: not
\* empty and without whitespace around it
ValuesPlain(h) ==
    \A i \in 1..Len(h.headers) :
        h.headers[i].value # <<>> /\ trim(h.headers[i].value) = h.headers[i].value

\* no two entries of the container have the same spelling of the name
SpellingsDistinct(h) ==
    \A i, j \in 1..Len(h.headers) :
        h.headers[i].name = h.headers[j].name => i = j

\* toBytes() has the stated form in every container
C19_BytesFormat ==
    HeadersMap_toBytes(hmap) = HeaderLinesWire(HeadersMap_entries(hmap)) \o CRLF

\* C19 does not hold for every container whose values parseHeaderLine keeps:
\* two lines of one spelling may be given one key
C19_WhenValuesPlain == ValuesPlain(hmap) => C19_SerialisationRoundTrip

\* C19 holds when moreover no spelling is held twice
C19_WhenSpellingsDistinct ==
    (ValuesPlain(hmap) /\ SpellingsDistinct(hmap)) => C19_SerialisationRoundTrip

\* C19 holds for plain values when the appends of parseHeaders are given
\* stamps that differ
C19_WhenStampsDistinct ==
    ValuesPlain(hmap) =>
        \A stamps \in StampsFor(hmap) :
            (\A i, j \in DOMAIN stamps : stamps[i] = stamps[j] => i = j)
                => /\ Reparsed(hmap, stamps) # None
                   /\ HeadersMap_equals(hmap, Reparsed(hmap, stamps)[1])


\* what C20 says of one step: the clone just made has the entries of the
\* original in their order, and a call on one container leaves the other
CloneEffect(h, c, after, cafter, call) ==
    /\ call.op = "clone"
          => /\ cafter # None
             /\ HeadersMap_entries(cafter[1]) = HeadersMap_entries(h)
             /\ after = h
    /\ (call.op # "clone" /\ call.on = "map") => cafter = c
    /\ call.on = "clone" => after = h

\* C20: clone() returns a container with the same entries in the same
\* order, and any later append, set, delete or clear on either the clone or
\* the original leaves the other unchanged.
C20_CloneIndependent ==
    [][CloneEffect(hmap, hclone, hmap', hclone', hcall')]_vars

\* a call on one container leaves the other as it was
C20_Independence ==
    [][/\ (hcall'.op # "clone" /\ hcall'.on = "map") => hclone' = hclone
       /\ hcall'.on = "clone" => hmap' = hmap]_vars

\* C20 holds for every clone() whose appends leave no key twice in the
\* index lists of the clone
C20_WhenKeysDistinct ==
    [][(hclone' # None /\ KeysDistinct(hclone'[1]))
          => CloneEffect(hmap, hclone, hmap', hclone', hcall')]_vars


\* what parse(data) on a newly constructed parser gives is what this step gave
SameAsFresh(fresh, after, messages) ==
    after = fresh.p /\ messages = fresh.messages

\* C21: from any reachable state, ERROR and mid-message states included,
\* reset() makes getState() IDLE and getBufferedBytes() 0 and leaves every
\* field as the constructor does, and the parse() call that follows gives
\* the messages and the parser that the same input gives on a new parser.
C21_ResetIsFresh ==
    [][/\ lastOp' = "reset"
            => /\ parser'.state = "IDLE"
               /\ getBufferedBytes(parser') = 0
               /\ parser' = NewHttpParser
       /\ (lastOp = "reset" /\ lastOp' = "parse")
            => SameAsFresh(parse(NewHttpParser, Slice(stream, 0, pos')),
                           parser', returned')]_vars

\* reset() has just been called on a parser that was in ERROR
C21_Witness ==
    /\ lastOp = "reset"
    /\ wasError
    /\ parser.state = "IDLE"
    /\ getBufferedBytes(parser) = 0


\* the three outcomes of a start-line tokenizer
OutcomeParsed(c) ==
    c.line # None /\ c.result.error = None /\ ~c.result.needsMoreData

OutcomeNeedMore(c) ==
    /\ c.line = None /\ c.result.error = None /\ c.result.needsMoreData
    /\ c.result.bytesConsumed = 0

OutcomeInvalid(c) ==
    /\ c.line = None /\ c.result.error # None /\ ~c.result.needsMoreData
    /\ c.result.bytesConsumed = 0

Block == conn[1].block
BlockEntries(block) == [i \in 1..Len(block) |-> <<block[i].name, block[i].value>>]
AllGood(block) == \A i \in 1..Len(block) : block[i].good

\* the parser has been given the whole connection
SentWhole == calls >= 1 /\ pos = Len(stream)

BeforeColon(line) == Slice(line, 0, IndexOf(line, COLON))
AfterColon(line) == Slice(line, IndexOf(line, COLON) + 1, Len(line))

\* the line has no ':', or nothing but whitespace before it, or after it
NullLine(line) ==
    \/ IndexOf(line, COLON) = -1
    \/ trim(BeforeColon(line)) = <<>>
    \/ trim(AfterColon(line)) = <<>>

\* C24: parseHeaderLine(line) returns the trimmed text before the first ':'
\* and the trimmed text after it, and null exactly when there is no ':'
\* or one of the two is empty; a header block that contains such a line
\* fails as a whole.
C24_HeaderLine ==
    /\ fcall.fn = "parseHeaderLine" =>
          /\ fcall.result = None <=> NullLine(fcall.line)
          /\ fcall.result # None =>
                fcall.result[1] = <<trim(BeforeColon(fcall.line)), trim(AfterColon(fcall.line))>>
    /\ (fcall.fn = "parseHeaders" /\ \E i \in 1..Len(Block) : NullLine(Block[i].text))
          => fcall.result = None
    /\ (SentWhole /\ \E i \in 1..Len(Block) : NullLine(Block[i].text))
          => emitted = <<>> /\ parser.state = "ERROR"

\* the parser was sent a block whose second line has no value, within the
\* header count cap
C24_Witness ==
    /\ SentWhole
    /\ Len(Block) = 2
    /\ Block[1].good
    /\ Block[2].text = <<65, 58>>
    /\ parser.state = "ERROR"


\* one assignment of the state field: the parser the handler was called
\* on, the value before, the value after, and whether it is the reset that
\* follows an emitted message
Change(p, from, to, emit) == [p |-> p, from |-> from, to |-> to, emit |-> emit]

\* the state appendToBody leaves when parseBodyContentLength or
\* parseChunkedData, called on p, returned result
StateAfterAppend(p, result) ==
    IF /\ p.state \in {"BODY_CONTENT_LENGTH", "BODY_CHUNKED_DATA"}
       /\ result.p.body # None
       /\ Len(result.p.body[1]) > options.maxBodySize
    THEN "ERROR" ELSE p.state

\* the assignments of one turn of the loop of parse(), in order
TurnChanges(p, result) ==
    SelectSeq(
        <<Change(p, p.state, StateAfterAppend(p, result), FALSE),
          Change(p, StateAfterAppend(p, result), result.p.state, FALSE),
          Change(p, result.p.state,
                 IF result.error THEN "ERROR" ELSE result.p.state, FALSE),
          Change(p, result.p.state,
                 IF ~result.error /\ result.complete THEN "IDLE" ELSE result.p.state,
                 TRUE)>>,
        LAMBDA c : c.from # c.to)

\* the assignments of the state field the loop of parse() makes from p on
RECURSIVE parseChanges(_)
RECURSIVE parseChangesTurn(_, _)
parseChangesTurn(p, result) ==
    TurnChanges(p, result)
        \o (IF result.error \/ result.needsMoreData THEN <<>>
            ELSE parseChanges(AfterResult(result)))

parseChanges(p) ==
    IF p.state = "ERROR" THEN <<>> ELSE parseChangesTurn(p, parseNext(p))

\* the buffered bytes of p begin with 'HTTP'
BeginsWithHTTP(p) ==
    /\ At(p.buffer, p.bufferOffset) = 72 /\ At(p.buffer, p.bufferOffset + 1) = 84
    /\ At(p.buffer, p.bufferOffset + 2) = 84 /\ At(p.buffer, p.bufferOffset + 3) = 80

\* the transitions of the table
InTable(c) ==
    \/ /\ c.from = "IDLE" /\ c.to = "STATUS_LINE"
       /\ getBufferedBytes(c.p) >= 4 /\ BeginsWithHTTP(c.p)
    \/ /\ c.from = "IDLE" /\ c.to = "REQUEST_LINE"
       /\ getBufferedBytes(c.p) >= 4 /\ ~BeginsWithHTTP(c.p)
    \/ c.from \in {"REQUEST_LINE", "STATUS_LINE"} /\ c.to = "HEADERS"
    \/ c.from = "HEADERS" /\ c.to \in {"BODY_CONTENT_LENGTH", "BODY_CHUNKED_SIZE"}
    \/ c.from = "BODY_CHUNKED_SIZE" /\ c.to \in {"BODY_CHUNKED_DATA", "BODY_CHUNKED_TRAILER"}
    \/ c.from = "BODY_CHUNKED_DATA" /\ c.to = "BODY_CHUNKED_SIZE"
    \/ c.from # "ERROR" /\ c.to = "ERROR"
    \/ c.from # "ERROR" /\ c.to = "IDLE" /\ c.emit

AllInTable(changes) == \A i \in 1..Len(changes) : InTable(changes[i])

\* C25: every change of the parser state made during parse() is a
\* transition of the table (IDLE to STATUS_LINE or REQUEST_LINE once four
\* bytes are buffered, the start line to HEADERS, HEADERS to a body state,
\* BODY_CHUNKED_SIZE to DATA or TRAILER, DATA to SIZE, any state but ERROR
\* to ERROR, and to IDLE after an emit); none leads out of ERROR.
C25_TransitionTable ==
    [][lastOp' = "parse" =>
          AllInTable(parseChanges(appendBuffer(parser, Slice(stream, pos, pos'))))]_vars

\* the changes that do not start in ERROR are all in the table
C25_OutsideError ==
    [][lastOp' = "parse" =>
          AllInTable(SelectSeq(parseChanges(appendBuffer(parser, Slice(stream, pos, pos'))),
                               LAMBDA c : c.from # "ERROR"))]_vars


\* the connection begins with a chunked message within the limits
ChunkedFirst ==
    connId \in MainIds /\ conn[1].framing = "chunked" /\ WithinLimits(conn[1])

\* the first message emitted carries header fields: the parser has read
\* the header block of the chunked message
EmittedWithHeaders ==
    Len(emitted) >= 1 /\ HeadersMap_totalEntries(emitted[1].headers) >= 1

\* C26: after a zero-size chunk the message is emitted only once the empty
\* line that ends the trailer section has been received, and the parser
\* consumes exactly through that line: the trailer fields are discarded, and
\* the bytes of a following message stay buffered and are parsed as the
\* next message, whether the data arrives whole or in fragments.
C26_TrailerTerminator ==
    ChunkedFirst =>
        /\ EmittedWithHeaders =>
              /\ pos >= Len(Wire(conn[1]))
              /\ HeadersMap_entries(emitted[1].headers) = conn[1].hdrs
        /\ (lastOp = "parse" /\ pos = Len(stream) /\ \A i \in 1..Len(conn) : WithinLimits(conn[i])) =>
              /\ Len(emitted) = Len(conn)
              /\ Len(conn) = 2 => /\ Observe(emitted[2]) = Expected(conn[2])
                                   /\ getBufferedBytes(parser) = 0

\* C26 for a chunked message that is alone on the connection and arrives in
\* one call: it is emitted once, without its trailer fields, nothing buffered
C26_AloneWhole ==
    (ChunkedFirst /\ Len(conn) = 1 /\ calls = 1 /\ pos = Len(stream)) =>
        /\ Len(emitted) = 1
        /\ Observe(emitted[1]) = Expected(conn[1])
        /\ getBufferedBytes(parser) = 0

\* the message is not emitted before its zero-size chunk line has arrived
C26_NotBeforeLastChunk ==
    (ChunkedFirst /\ EmittedWithHeaders) =>
        pos >= Len(Wire(conn[1])) - Len(LinesWire(conn[1].trailer)) - 2


\* the connection begins with a well-formed message without header fields,
\* and the first parse() call was given at least all of it
HeaderlessFirst ==
    /\ connId \in MainIds /\ conn[1].valid /\ conn[1].hdrs = <<>>
    /\ calls = 1 /\ pos >= Len(Wire(conn[1]))

\* C27: a well-formed message with no header fields (start-line CRLF CRLF)
\* is emitted with an empty header container and consumes exactly its own
\* bytes: alone it is emitted without waiting for more data, and bytes that
\* follow it in the same buffer are left for the next message.
C27_NoHeaderFields ==
    HeaderlessFirst =>
        /\ Len(emitted) >= 1
        /\ Observe(emitted[1]) = Expected(conn[1])
        /\ HeadersMap_totalEntries(emitted[1].headers) = 0
        /\ (pos = Len(stream) /\ Len(conn) = 2 /\ WithinLimits(conn[2])) =>
              /\ Len(emitted) = 2
              /\ Observe(emitted[2]) = Expected(conn[2])

\* C27 for a message that arrives alone: it is emitted at once, with an
\* empty header container and nothing left buffered
C27_Alone ==
    (HeaderlessFirst /\ pos = Len(Wire(conn[1]))) =>
        /\ Len(emitted) = 1
        /\ Observe(emitted[1]) = Expected(conn[1])
        /\ HeadersMap_totalEntries(emitted[1].headers) = 0
        /\ getBufferedBytes(parser) = 0

\* the step is a parse() call that gives a parser with nothing buffered, in
\* IDLE, exactly the last message of the connection
LastMessageAlone ==
    /\ connId \in CaseIds
    /\ parser.state = "IDLE" /\ getBufferedBytes(parser) = 0
    /\ pos = MessageEnd(Len(conn) - 1)
    /\ lastOp' = "parse" /\ pos' = Len(stream)

\* the last message of the connection is a chunked one in which the data
\* of a chunk is not followed by CR LF
ChunkEndMissing == "chunkData" \in DOMAIN conn[Len(conn)]

\* C28: when the two bytes that follow the data of a chunk are not CR LF the
\* parser enters ERROR and the message is not emitted; the bytes are not
\* read as the next chunk-size line.
C28_ChunkDataCrlf ==
    [][(LastMessageAlone /\ ChunkEndMissing) =>
            /\ parser'.state = "ERROR"
            /\ returned' = <<>>]_vars

\* C28 as far as the code goes: the bytes after the chunk data are read as
\* the next chunk-size line, so the parser fails only when they are not one
C28_ReadAsSizeLine ==
    [][(LastMessageAlone /\ ChunkEndMissing) =>
            \/ parser'.state = "ERROR" /\ returned' = <<>>
            \/ /\ parser'.state = "IDLE"
               /\ Len(returned') = 1
               /\ IsPrefix(conn[Len(conn)].chunkData, returned'[1].body)]_vars

\* messages the parser rejects when it is given them alone
Rejected == {BadVersion, BadMethod, ChunkedMsg(maxChunks + 1)}

\* one parse() call was given a whole connection: well-formed messages
\* within the limits, then a message the parser rejects
ValidThenError ==
    /\ connId \in CaseIds /\ Len(conn) >= 2
    /\ calls = 1 /\ pos = Len(stream)
    /\ \A i \in 1..(Len(conn) - 1) : WithinLimits(conn[i])
    /\ conn[Len(conn)] \in Rejected

\* the call returned the well-formed messages, in order
ReturnedValid ==
    /\ Len(returned) = Len(conn) - 1
    /\ \A i \in 1..(Len(conn) - 1) : Observe(returned[i]) = Expected(conn[i])

\* C29: when the bytes of one parse() call hold complete valid messages
\* followed by bytes that cause a parse error, the call returns the messages
\* completed before the error, in order, and leaves the parser in ERROR.
C29_MessagesBeforeError ==
    ValidThenError => (parser.state = "ERROR" /\ ReturnedValid)

\* the end of the message is found without a search for an empty line: it
\* has header fields, and its body is not chunked or ends with a trailer
EndFound(m) ==
    /\ m.hdrs # <<>>
    /\ m.framing = "chunked" => m.trailer # <<>>

\* C29 for messages whose end is found without a search
C29_WhenEndFound ==
    (ValidThenError /\ \A i \in 1..(Len(conn) - 1) : EndFound(conn[i])) =>
        (parser.state = "ERROR" /\ ReturnedValid)

\* the step is a parse() call that gives a parser with nothing buffered, in
\* IDLE, exactly the k-th message of the connection
MessageAlone(k) ==
    /\ connId \in CaseIds
    /\ parser.state = "IDLE" /\ getBufferedBytes(parser) = 0
    /\ pos = MessageEnd(k - 1)
    /\ lastOp' = "parse" /\ pos' = MessageEnd(k)

\* a well-formed chunked message whose body is within maxBodySize
ChunkedWellFormed(m) ==
    /\ "raw" \notin DOMAIN m
    /\ m.valid /\ m.framing = "chunked"
    /\ Len(BodyOf(m)) <= options.maxBodySize

\* C30: a chunked body with at most maxChunks data chunks is accepted; when
\* a chunk-size line makes the number of data chunks of the message exceed
\* maxChunks the parser enters ERROR and the message is not emitted; the
\* last-chunk line is not counted, and the count starts again at zero for
\* each message.
C30_ChunkCountCap ==
    [][\A k \in 1..Len(conn) :
          (MessageAlone(k) /\ ChunkedWellFormed(conn[k])) =>
              IF Len(conn[k].chunks) <= options.maxChunks
              THEN /\ parser'.state = "IDLE"
                   /\ Len(returned') = 1
                   /\ Observe(returned'[1]) = Expected(conn[k])
              ELSE /\ parser'.state = "ERROR"
                   /\ returned' = <<>>]_vars

\* a message with as many data chunks as the cap allows was emitted, and the
\* next message of the same connection, with one chunk more, was refused at
\* its last data chunk
C30_Witness ==
    /\ connId \in CaseIds
    /\ conn = <<ChunkedMsg(maxChunks), ChunkedMsg(maxChunks + 1)>>
    /\ calls = 2 /\ pos = Len(stream)
    /\ Len(emitted) = 1 /\ Len(emitted[1].body) = maxChunks
    /\ parser.state = "ERROR" /\ parser.totalChunks = maxChunks + 1

\* s is a non-empty string of digits of the radix
AllDigits(s, radix) == s # <<>> /\ \A i \in 1..Len(s) : DigitVal(s[i]) < radix

\* C31: parseContentLength(v) returns n exactly when the trimmed v is a
\* non-empty string of decimal digits denoting n, and null for every other
\* value (a sign, interior white space, hexadecimal, exponent or
\* decimal-point notation, any other character).
C31_ContentLengthDigits ==
    fcall.fn = "parseContentLength" =>
        fcall.result = IF AllDigits(trim(fcall.value), 10)
                       THEN Some(DigitsValue(trim(fcall.value), 10))
                       ELSE None

\* C31 as far as the code goes: a string of decimal digits gives its value,
\* and no value with interior white space or a letter other than e, E, x, X
\* and the hexadecimal digits after 0x is accepted
C31_DigitsAccepted ==
    fcall.fn = "parseContentLength" =>
        /\ AllDigits(trim(fcall.value), 10) =>
              fcall.result = Some(DigitsValue(trim(fcall.value), 10))
        /\ (\E i \in 1..Len(trim(fcall.value)) : trim(fcall.value)[i] = SPACE) =>
              fcall.result = None
        /\ fcall.result # None => fcall.result[1] >= 0

\* C32: parseChunkSize(s, cap) returns n exactly when the trimmed s is a
\* non-empty string of hexadecimal digits, of either case, denoting n <= cap,
\* and null otherwise (a character that is not a hexadecimal digit anywhere
\* in the string, a sign, a 0x prefix, a value above the cap).
C32_ChunkSizeHex ==
    fcall.fn = "parseChunkSize" =>
        fcall.result = IF /\ AllDigits(trim(fcall.value), 16)
                          /\ DigitsValue(trim(fcall.value), 16) <= fcall.cap
                       THEN Some(DigitsValue(trim(fcall.value), 16))
                       ELSE None

\* C32 as far as the code goes: a string of hexadecimal digits gives its
\* value when that is within the cap, and no value above the cap is returned
C32_HexAccepted ==
    fcall.fn = "parseChunkSize" =>
        /\ AllDigits(trim(fcall.value), 16) =>
              fcall.result = IF DigitsValue(trim(fcall.value), 16) <= fcall.cap
                             THEN Some(DigitsValue(trim(fcall.value), 16))
                             ELSE None
        /\ fcall.result # None => (fcall.result[1] >= 0 /\ fcall.result[1] <= fcall.cap)

\* the fields of the status line a call was given: the line is what
\* precedes the first CR LF, the version what precedes its first SP, the
\* status-code field what lies between the first and the second SP (or the
\* line end), the reason phrase what follows the second SP
GivenLine == Slice(fcall.data, fcall.start, IndexOfCRLF(fcall.data))
GivenVersion == Slice(GivenLine, 0, IndexOf(GivenLine, SPACE))
GivenAfterVersion == Slice(GivenLine, IndexOf(GivenLine, SPACE) + 1, Len(GivenLine))
GivenCode ==
    IF IndexOf(GivenAfterVersion, SPACE) = -1 THEN GivenAfterVersion
    ELSE Slice(GivenAfterVersion, 0, IndexOf(GivenAfterVersion, SPACE))
GivenReason ==
    IF IndexOf(GivenAfterVersion, SPACE) = -1 THEN <<>>
    ELSE Slice(GivenAfterVersion, IndexOf(GivenAfterVersion, SPACE) + 1,
               Len(GivenAfterVersion))

\* parseStatusLine returned a parsed line
StatusParsed == fcall.fn = "parseStatusLine" /\ fcall.line # None

\* C33: parseStatusLine returns a parsed line only if the version is exactly
\* HTTP/1.0 or HTTP/1.1 and the status-code field is a decimal integer in
\* [100, 999]; the reason phrase is all the bytes after the second SP up to
\* the line end, interior spaces kept, and is empty when the CRLF follows
\* the status code directly.
C33_StatusLine ==
    StatusParsed =>
        /\ GivenVersion \in {HTTP_1_0, HTTP_1_1}
        /\ fcall.line[1].version = GivenVersion
        /\ AllDigits(GivenCode, 10)
        /\ DigitsValue(GivenCode, 10) \in 100..999
        /\ fcall.line[1].statusCode = DigitsValue(GivenCode, 10)
        /\ fcall.line[1].statusText = GivenReason

\* C33 as far as the code goes: the status code is what parseInt makes of
\* the field, a sign and whatever follows the digits included
C33_StatusLineParseInt ==
    StatusParsed =>
        /\ GivenVersion \in {HTTP_1_0, HTTP_1_1}
        /\ fcall.line[1].version = GivenVersion
        /\ parseInt(GivenCode, 10) = Some(fcall.line[1].statusCode)
        /\ fcall.line[1].statusCode \in 100..999
        /\ fcall.line[1].statusText = GivenReason

\* the emitted message carries no Connection header
NoConnectionHeader(msg) == ValuesNamed(Observe(msg).entries, ConnectionName) = <<>>

\* C34: every emitted message of HTTP/1.0 without a Connection header,
\* request as well as response, has keepAlive = FALSE, and every message of
\* HTTP/1.1 without a Connection header has keepAlive = TRUE.
C34_KeepAliveDefault ==
    \A i \in 1..Len(emitted) :
        NoConnectionHeader(emitted[i]) =>
            emitted[i].keepAlive = (emitted[i].startLine.version = HTTP_1_1)

\* C34 for all but the requests of HTTP/1.0
C34_ExceptRequests10 ==
    \A i \in 1..Len(emitted) :
        (/\ NoConnectionHeader(emitted[i])
         /\ ~(emitted[i].type = "REQUEST" /\ emitted[i].startLine.version = HTTP_1_0)) =>
            emitted[i].keepAlive = (emitted[i].startLine.version = HTTP_1_1)

\* the step is the first parse() call on a connection of two messages and
\* gives it both, the first one well-formed and with an end that is found
\* without a search
PipelinedPair ==
    /\ connId \in CaseIds /\ Len(conn) = 2
    /\ lastOp = "new" /\ lastOp' = "parse" /\ pos' = Len(stream)
    /\ WithinLimits(conn[1]) /\ EndFound(conn[1])

\* C35: per-message fields do not leak between pipelined messages: a
\* message that follows another one on the same parser is parsed as a new
\* parser parses it, whatever the Connection header, body, start line and
\* chunk count of the message before it, and the bytes buffered behind a
\* message are kept for the next one.
C35_NoLeak ==
    [][/\ \A k \in 2..Len(conn) :
            MessageAlone(k) =>
                SameAsFresh(parse(NewHttpParser, CaseWire(conn[k])), parser', returned')
       /\ PipelinedPair =>
            /\ Len(returned') >= 1
            /\ Observe(returned'[1]) = Expected(conn[1])
            /\ SameAsFresh(parse(NewHttpParser, CaseWire(conn[2])), parser',
                           Tail(returned'))]_vars

\* one call was given a request with 'Connection: Close' and a body and,
\* behind it, a request without either: both were emitted, the second with
\* keepAlive and an empty body
C35_Witness ==
    /\ connId \in CaseIds /\ conn = <<PostClose, ReqHost>>
    /\ calls = 1 /\ pos = Len(stream)
    /\ Len(emitted) = 2
    /\ ~emitted[1].keepAlive /\ emitted[1].body = PostClose.body
    /\ emitted[2].keepAlive /\ emitted[2].body = <<>>
    /\ Observe(emitted[2]) = Expected(ReqHost)

\* the lengths of the header lines of the request on the connection
LineLengths == [i \in 1..Len(conn[1].hdrs) |-> Len(conn[1].hdrs[i][1]) + 2 + Len(conn[1].hdrs[i][2])]
LinesWithinLimit == \A i \in 1..Len(LineLengths) : LineLengths[i] <= options.maxHeaderLineLength

\* C36: the header line-length limit applies per line: a header block in
\* which every line is at most maxHeaderLineLength bytes is accepted without
\* ERROR whatever its total size and however it is split across parse()
\* calls, and a block with a longer line fails the parse.
C36_LineLimitPerLine ==
    connId \in LimitIds =>
        IF LinesWithinLimit
        THEN /\ parser.state # "ERROR"
             /\ pos = Len(stream) =>
                   (Len(emitted) = 1 /\ Observe(emitted[1]) = Expected(conn[1]))
        ELSE pos = Len(stream) => (parser.state = "ERROR" /\ emitted = <<>>)

\* C36 for a header block that arrives in the call that brings its start line
C36_BlockInOneCall ==
    (connId \in LimitIds /\ calls = 1 /\ pos = Len(stream)) =>
        IF LinesWithinLimit
        THEN Len(emitted) = 1 /\ Observe(emitted[1]) = Expected(conn[1])
        ELSE parser.state = "ERROR" /\ emitted = <<>>

\* C36 for a block with a line above the limit, however it is split
C36_LongLineFails ==
    (connId \in LimitIds /\ ~LinesWithinLimit /\ pos = Len(stream)) =>
        (parser.state = "ERROR" /\ emitted = <<>>)

\* C36 as far as the code goes: while the block is incomplete the limit is
\* applied to all that is buffered of it once a CR LF is in it; the state
\* is the one in which the parser has just failed
C36_LimitOnBufferedBlock ==
    (connId \in LimitIds /\ LinesWithinLimit /\ parser.state = "ERROR" /\ ~wasError) =>
        /\ getBufferedBytes(parser) > options.maxHeaderLineLength
        /\ FindHeaderEnd(parser.buffer, parser.bufferOffset) = -1

\* the step is a parse() call on a parser in ERROR
ParseInError == lastOp' = "parse" /\ parser.state = "ERROR"

\* C37: while the parser is in ERROR, parse(data) neither consumes nor
\* retains data: the read offset does not advance and getBufferedBytes() is
\* the same before and after the call.
C37_ErrorKeepsNothing ==
    [][ParseInError =>
            /\ parser'.state = "ERROR"
            /\ returned' = <<>>
            /\ getBufferedBytes(parser') = getBufferedBytes(parser)
            /\ parser'.bufferOffset <= parser.bufferOffset]_vars

\* C37 as far as the code goes: the call returns nothing and the parser
\* stays in ERROR, but the data is appended to the buffer
C37_ErrorAppends ==
    [][ParseInError =>
            /\ parser'.state = "ERROR"
            /\ returned' = <<>>
            /\ getBufferedBytes(parser') = getBufferedBytes(parser) + (pos' - pos)
            /\ parser'.bufferOffset = 0]_vars

\* the turns of the loop of parse() from p on: the parser before
\* parseNext() is called and as parseNext() leaves it, whether the turn
\* completed a message, and whether it ended the call
RECURSIVE parseTurns(_)
parseTurnsNext(p, result) ==
    <<[before |-> p, after |-> result.p, complete |-> result.complete,
       ended |-> result.needsMoreData \/ result.error]>>
        \o (IF result.error \/ result.needsMoreData THEN <<>>
            ELSE parseTurns(AfterResult(result)))

parseTurns(p) ==
    IF p.state = "ERROR" THEN <<>> ELSE parseTurnsNext(p, parseNext(p))

\* the turns of the parse() call the step makes
StepTurns == parseTurns(appendBuffer(parser, Slice(stream, pos, pos')))

OffsetInBuffer(p) == 0 <= p.bufferOffset /\ p.bufferOffset <= Len(p.buffer)
AtStartLine(p) == p.state \in {"REQUEST_LINE", "STATUS_LINE"}

\* the read offset stays within the buffer, and is 0 whenever a start-line
\* tokenizer is called
OffsetsOfTurn(t) ==
    /\ OffsetInBuffer(t.before) /\ OffsetInBuffer(t.after)
    /\ AtStartLine(t.before) => t.before.bufferOffset = 0

\* after a start line is parsed the read offset is the index of the first
\* byte after its CRLF
AfterStartLine(t) ==
    (AtStartLine(t.before) /\ t.after.state = "HEADERS") =>
        /\ FindCrlf(t.before.buffer, 0, Len(t.before.buffer)) # -1
        /\ t.after.bufferOffset = FindCrlf(t.before.buffer, 0, Len(t.before.buffer)) + 2

\* each turn of a sequence of turns keeps the offsets and, if asked for,
\* leaves the read offset behind the CRLF of a parsed start line
TurnsKeepOffsets(turns) == \A i \in 1..Len(turns) : OffsetsOfTurn(turns[i])
TurnsAfterStartLine(turns) == \A i \in 1..Len(turns) : AfterStartLine(turns[i])
TurnsAfterCrlf(turns) ==
    \A i \in 1..Len(turns) :
        FindCrlf(turns[i].before.buffer, 0, Len(turns[i].before.buffer)) # -1
            => AfterStartLine(turns[i])

\* C38: in every reachable state 0 <= bufferOffset <= buffer.length, and
\* whenever a start-line tokenizer is called the read offset is 0, so that
\* after a start line is parsed the read offset is the index of the first
\* byte after its CRLF.
C38_ReadOffset ==
    [][/\ OffsetInBuffer(parser')
       /\ lastOp' = "parse" => TurnsKeepOffsets(StepTurns)
       /\ lastOp' = "parse" => TurnsAfterStartLine(StepTurns)]_vars

\* C38 without its last part: the offset is within the buffer in every
\* state, between the turns of the loop as well, and 0 at a start line
C38_OffsetBounds ==
    [][/\ OffsetInBuffer(parser')
       /\ lastOp' = "parse" => TurnsKeepOffsets(StepTurns)]_vars

\* C38, last part, for a start line that is parsed when its CRLF is buffered
C38_AfterCrlf == [][lastOp' = "parse" => TurnsAfterCrlf(StepTurns)]_vars

\* the order of the states of one message; the chunk states repeat for
\* each chunk: the size line of a chunk comes after the data of the one
\* before it
StateRank(state) ==
    CASE state = "IDLE" -> 0
      [] state \in {"REQUEST_LINE", "STATUS_LINE"} -> 1
      [] state = "HEADERS" -> 2
      [] state \in {"BODY_CONTENT_LENGTH", "BODY_CHUNKED_SIZE"} -> 3
      [] state = "BODY_CHUNKED_DATA" -> 4
      [] state = "BODY_CHUNKED_TRAILER" -> 5
      [] OTHER -> 6

\* what a turn of the loop does to go on
TurnConsumes(t) == t.after.bufferOffset > t.before.bufferOffset
TurnAdvances(t) ==
    \/ StateRank(t.after.state) > StateRank(t.before.state)
    \/ t.before.state = "BODY_CHUNKED_DATA" /\ t.after.state = "BODY_CHUNKED_SIZE"
TurnEmits(t) == t.complete /\ t.after.bufferOffset > 0
TurnProgress(t) == TurnConsumes(t) \/ TurnAdvances(t) \/ TurnEmits(t) \/ t.ended

\* the chunk states do not repeat without end: the turn that goes from the
\* size line of a chunk to its data has read the size line
ChunkCycleConsumes(t) ==
    (t.before.state = "BODY_CHUNKED_SIZE" /\ t.after.state = "BODY_CHUNKED_DATA") =>
        TurnConsumes(t)

TurnsProgress(turns) ==
    \A i \in 1..Len(turns) : TurnProgress(turns[i]) /\ ChunkCycleConsumes(turns[i])

\* the turns all go on, and there are no more of them than four for each
\* byte the call has before it, and four
TurnsWithin(turns, bytes) == TurnsProgress(turns) /\ Len(turns) <= 4 * bytes + 4

\* C39: every parse() call terminates: each turn of its loop consumes at
\* least one buffered byte, moves to a later state of the current message,
\* emits a message that consumed its start line at least, or ends the call
\* with needs-more-data or ERROR.
C39_LoopProgress ==
    [][lastOp' = "parse" =>
          TurnsWithin(StepTurns, getBufferedBytes(parser) + (pos' - pos))]_vars

\* one parse() call was given a chunked response of two chunks, went
\* through the chunk states twice and emitted the message
C39_Witness ==
    /\ connId \in MainIds /\ conn[1] = RespChunked
    /\ calls = 1 /\ pos >= Len(Wire(RespChunked))
    /\ Len(emitted) >= 1 /\ emitted[1].body = BodyOf(RespChunked)

\* the i-th emitted message is the i-th message sent, as it was sent
EmittedAsSent(i) ==
    /\ i <= Len(conn)
    /\ "raw" \notin DOMAIN conn[i]
    /\ Observe(emitted[i]) = Expected(conn[i])

\* the tag that says how the body of a sent message is framed
FramingTag(m) ==
    IF m.framing = "chunked" THEN "chunked" ELSE "content-length"

\* contentLength, when present, is the length of the body
ContentLengthIsBodyLength(msg) ==
    msg.contentLength # None => msg.contentLength[1] = Len(msg.body)

\* C40: every emitted message carries a transferEncoding tag that matches
\* how its body was framed (chunked for a chunk-decoded body, content-length
\* for a Content-Length body), and its contentLength, when present, equals
\* body.length.
C40_TransferEncodingTag ==
    connId \in CaseIds =>
        \A i \in 1..Len(emitted) :
            /\ ContentLengthIsBodyLength(emitted[i])
            /\ (EmittedAsSent(i) /\ conn[i].framing \in {"chunked", "length"}) =>
                  emitted[i].transferEncoding = FramingTag(conn[i])

\* C40 as far as the code goes: the tag is content-length on every message,
\* and contentLength, when present, is the length of the body
C40_AlwaysContentLength ==
    \A i \in 1..Len(emitted) :
        /\ ContentLengthIsBodyLength(emitted[i])
        /\ emitted[i].transferEncoding = "content-length"

====
